---- MODULE Spec2Model ----
(***************************************************************************)
(* A model of bigquery_advanced_utils:                                     *)
(*   - LoggingClient (logging/logging.py): the pull of the data access     *)
(*     logs, their normalisation, the time window cache and the lookup by  *)
(*     table id;                                                           *)
(*   - run_data_checks and the built-in checks (utils/data_checks.py).     *)
(*                                                                         *)
(* Python values are modelled as follows.  An optional value (a value or   *)
(* None, a dictionary key that may be absent) is a sequence of length at   *)
(* most one: <<>> is None/absent and <<v>> is v.  A string the code looks  *)
(* into (a table id, a resource path, a user agent, a CSV value) is the    *)
(* sequence of its tokens or characters.  A datetime is an integer.        *)
(***************************************************************************)
EXTENDS Integers, Sequences, FiniteSets, TLC

VARIABLES
    \* ---- LoggingClient -------------------------------------------------
    data_access_logs,   \* self.data_access_logs: sequence of normalized records
    cache,              \* self.cache: [cached, start_time, end_time]
    now,                \* the value datetime.now() returns
    store,              \* the entries the logging backend holds
    calls,              \* number of calls of the public methods made so far
    last,               \* what the last call did (its outcome and its effects)
    succeeded,          \* whether a call of get_all_data_access_logs has returned
    \* ---- normalisation of one entry ------------------------------------
    n_entry,            \* the raw log entry handed to the normalisation
    n_out,              \* the origin assigned to n_entry and the records it appended
    \* ---- run_data_checks -----------------------------------------------
    header,             \* reader.fieldnames
    data_checks,        \* the list of check functions (with their bound arguments)
    rows,               \* the values of the data rows read so far
    column_sums,        \* column name -> accumulator set
    ci,                 \* position in data_checks of the next check to invoke on the current row
    invoked,            \* the check invocations made so far, each with its result
    outcome,            \* "running", "True", "False" or "raised"
    \* ---- LoggingClient._flatten_dictionaries ---------------------------
    f_logs,             \* self.data_access_logs as a list of dictionaries
    f_out,              \* what _flatten_dictionaries returned for f_logs
    \* ---- LoggingClient._calculate_interval -----------------------------
    i_call,             \* the arguments of the call
    i_now,              \* the value datetime.now() returns during the call
    i_store,            \* the entries the logging backend holds
    i_out,              \* what the call did: its interval or error, its listings
    \* ---- SingletonBase.__new__, for one subclass -----------------------
    s_pc,               \* thread -> the line of __new__ it is at, or "idle"
    s_instances,        \* cls._instances: the instance registered for the class, if any
    s_lock,             \* cls._lock: the thread that holds it, 0 when free
    s_instance,         \* thread -> its local variable instance
    s_calls,            \* thread -> number of constructor calls it has made
    s_hist,             \* what happened so far: instances created, _initialize runs,
                        \* registrations, returned instances, exceptions raised
    \* ---- CloudStorageClient(...) and LoggingClient(...) ----------------
    c_pc,               \* thread -> the line of CloudStorageClient(...) it is at, or "idle"
    c_instance,         \* CloudStorageClient._instance
    c_lock,             \* CloudStorageClient._lock: the thread that holds it, 0 when free
    c_objs,             \* the CloudStorageClient objects created: for each, whether it
                        \* has the attribute initialized and how often Client.__init__ ran on it
    c_result,           \* thread -> the object its __new__ returned
    c_calls,            \* thread -> number of constructor calls it has made
    c_hist,             \* the objects CloudStorageClient(...) returned, the exceptions it raised
    l_objs,             \* the LoggingClient objects created: for each, whether it has
                        \* _initialized set and how often Client.__init__ ran on it
    l_hist,             \* the objects LoggingClient(...) returned, the exceptions it raised
    \* ---- DataTransferClient --------------------------------------------
    t_parent,           \* self.parent
    t_backend,          \* the transfer configs the backend lists, in its order
    t_cache,            \* self.cached_transfer_configs_list
    t_out,              \* what the last call of get_transfer_configs did
    \* ---- SingletonBase.__new__, for two subclasses ---------------------
    p_stack,            \* thread -> the constructor calls it is in, the innermost
                        \* last: each with its class, its line of __new__ and its
                        \* local variable instance
    p_instances,        \* SingletonBase._instances: class -> its instance, if any
    p_lock,             \* SingletonBase._lock: the thread that holds it, 0 when free
    p_calls,            \* thread -> number of constructor calls it has made
    p_created           \* number of instances created so far

log_vars == <<data_access_logs, cache, now, store, calls, last, succeeded>>
norm_vars == <<n_entry, n_out>>
check_vars == <<header, data_checks, rows, column_sums, ci, invoked, outcome>>
flat_vars == <<f_logs, f_out>>
interval_vars == <<i_call, i_now, i_store, i_out>>
single_vars == <<s_pc, s_instances, s_lock, s_instance, s_calls, s_hist>>
client_vars == <<c_pc, c_instance, c_lock, c_objs, c_result, c_calls, c_hist,
                 l_objs, l_hist>>
transfer_vars == <<t_parent, t_backend, t_cache, t_out>>
nest_vars == <<p_stack, p_instances, p_lock, p_calls, p_created>>
more_vars == <<single_vars, client_vars, transfer_vars, nest_vars>>
old_vars == <<log_vars, norm_vars, check_vars, flat_vars, interval_vars>>
ext_vars == <<flat_vars, interval_vars, more_vars>>
vars == <<log_vars, norm_vars, check_vars, ext_vars>>

----------------------------------------------------------------------------
(* Bounds of the model. *)
MaxTime == 1        \* datetime.now() ranges over 0..MaxTime
MaxCalls == 2       \* calls of the public LoggingClient methods in one behaviour
MaxItems == 2       \* entries of authorizationInfo in a payload drawn for the normalisation
MaxRows == 2        \* data rows of the file run_data_checks reads

----------------------------------------------------------------------------
(* Python helpers. *)
None == <<>>
Some(v) == <<v>>
IsNone(o) == o = <<>>
Val(o) == o[1]

Range(s) == {s[i] : i \in 1..Len(s)}

\* Number of elements of s equal to c: str.count for a one character needle.
RECURSIVE Count(_, _)
Count(s, c) ==
    IF s = <<>> THEN 0
    ELSE (IF Head(s) = c THEN 1 ELSE 0) + Count(Tail(s), c)

\* str.startswith
StartsWith(s, prefix) ==
    /\ Len(s) >= Len(prefix)
    /\ SubSeq(s, 1, Len(prefix)) = prefix

\* str.lower, on the tokens of the model's strings.
LowerToken(c) ==
    CASE c = "P" -> "p"
      [] c = "D" -> "d"
      [] c = "T" -> "t"
      [] OTHER -> c
Lower(s) == [i \in 1..Len(s) |-> LowerToken(s[i])]

----------------------------------------------------------------------------
(* Constants of the package (utils/constants.py). *)

\* SOURCE_ORIGIN_TYPE
SOURCE_ORIGIN_TYPE ==
    [looker_studio |-> "Looker Studio",
     datatransfer  |-> "Datatransfer",
     power_bi      |-> "Power BI",
     query_api     |-> "Query / API",
     other         |-> "Other"]

\* re.match(MATCHING_RULE_TABLE_REF_ID, s): s, a path given by its segments
\* and "/" separators, starts with projects/<p>/datasets/<d>/tables/<t>,
\* each of <p>, <d>, <t> a non-empty run without "/".
MatchTableRef(s) ==
    /\ Len(s) >= 11
    /\ s[1] = "projects" /\ s[2] = "/" /\ s[3] # "/" /\ s[4] = "/"
    /\ s[5] = "datasets" /\ s[6] = "/" /\ s[7] # "/" /\ s[8] = "/"
    /\ s[9] = "tables" /\ s[10] = "/" /\ s[11] # "/"

\* f"{match[0][0]}.{match[0][1]}.{match[0][2]}" for the first match of
\* re.findall(MATCHING_RULE_TABLE_REF_ID, s), s a string re.match accepted.
TableIdOfResource(s) == <<s[3], ".", s[7], ".", s[11]>>

----------------------------------------------------------------------------
(* LoggingClient.get_all_data_access_logs: the normalisation of one entry. *)

\* str(x) of an optional string, as an f-string formats it.
Str(o) == IF IsNone(o) THEN "None" ELSE Val(o)

UA_DATATRANSFER == <<"BigQuery Data Transfer Service">>
UA_POWER_BI_PREFIX == <<"MicrosoftODBCDriverforGoogleBigQuery">>

\* The classification with the Power BI rule tested before the Looker Studio
\* rule.
RequestSourceOriginPowerBiFirst(p) ==
    IF p.callerSuppliedUserAgent = Some(UA_DATATRANSFER)
    THEN "Datatransfer"
    ELSE IF StartsWith(IF IsNone(p.callerSuppliedUserAgent) THEN <<>>
                       ELSE Val(p.callerSuppliedUserAgent),
                       UA_POWER_BI_PREFIX)
    THEN SOURCE_ORIGIN_TYPE.power_bi
    ELSE IF p.requestor = Some("looker_studio")
    THEN SOURCE_ORIGIN_TYPE.looker_studio
    ELSE IF p.queryPriority = Some("QUERY_INTERACTIVE")
    THEN SOURCE_ORIGIN_TYPE.query_api
    ELSE SOURCE_ORIGIN_TYPE.other

\* log_entry["request_source_origin"]: the nested conditional expression.
RequestSourceOrigin(p) ==
    IF p.callerSuppliedUserAgent = Some(UA_DATATRANSFER)
    THEN "Datatransfer"
    ELSE IF p.requestor = Some("looker_studio")
    THEN SOURCE_ORIGIN_TYPE.looker_studio
    ELSE IF StartsWith(IF IsNone(p.callerSuppliedUserAgent) THEN <<>>
                       ELSE Val(p.callerSuppliedUserAgent),
                       UA_POWER_BI_PREFIX)
    THEN SOURCE_ORIGIN_TYPE.power_bi
    ELSE IF p.queryPriority = Some("QUERY_INTERACTIVE")
    THEN SOURCE_ORIGIN_TYPE.query_api
    ELSE SOURCE_ORIGIN_TYPE.other

\* The filter of list_of_resources without the test of the granted flag.
IsTableWhateverGranted(item) ==
    /\ ~IsNone(item.resource)
    /\ MatchTableRef(Val(item.resource))

\* list_of_resources and the set of table ids built from it.
IsGrantedTable(item) ==
    /\ ~IsNone(item.resource)
    /\ ~IsNone(item.granted)
    /\ Val(item.granted) = "True"
    /\ MatchTableRef(Val(item.resource))

TablesFromAuthorizationInfo(p) ==
    {TableIdOfResource(Val(p.authorizationInfo[i].resource)) :
        i \in {j \in 1..Len(p.authorizationInfo) :
                  IsGrantedTable(p.authorizationInfo[j])}}

\* f'{x.get("projectId")}.{x.get("datasetId")}.{x.get("tableId")}'
TableIdOfRef(x) == <<Str(x.projectId), ".", Str(x.datasetId), ".", Str(x.tableId)>>

TablesFromJobStatistics(p) ==
    {TableIdOfRef(p.referencedTables[i]) : i \in 1..Len(p.referencedTables)}
    \cup {TableIdOfRef(p.referencedViews[i]) : i \in 1..Len(p.referencedViews)}

\* log_entry["referenced_tables"]; list(set) has no defined order, so the
\* model keeps the set.
ReferencedTables(p) ==
    IF RequestSourceOrigin(p) \notin
          {SOURCE_ORIGIN_TYPE.looker_studio, SOURCE_ORIGIN_TYPE.power_bi}
    THEN TablesFromAuthorizationInfo(p)
    ELSE TablesFromJobStatistics(p)

\* datetime.isoformat(): the timestamp becomes a string.
IsoFormat(t) == <<"iso", t>>

\* The loop body without "if len(...) == 0: continue".
NormalizeEntryKeepingAll(entry) ==
    LET p == entry.payload
    IN  << [id |-> entry.insert_id,
            timestamp |-> IsoFormat(entry.timestamp),
            user_email |-> IF IsNone(p.principalEmail) THEN "Unknown"
                           ELSE Val(p.principalEmail),
            request_source_origin |-> RequestSourceOrigin(p),
            referenced_tables |-> ReferencedTables(p),
            datatransfer_details |->
               [project_id |-> p.jobProjectId,
                config_id |-> IF ~IsNone(p.dts_run_id) THEN p.dts_run_id
                              ELSE p.jobId],
            looker_studio_details |->
               [dashboard_id |-> p.looker_studio_report_id,
                datasource_id |-> p.looker_studio_datasource_id]] >>

\* The body of the loop over the entries: the records one entry appends to
\* self.data_access_logs (none when no table is found).
NormalizeEntry(entry) ==
    LET p == entry.payload
        tables == ReferencedTables(p)
    IN  IF tables = {} THEN <<>>
        ELSE << [id |-> entry.insert_id,
                 timestamp |-> IsoFormat(entry.timestamp),
                 user_email |-> IF IsNone(p.principalEmail) THEN "Unknown"
                                ELSE Val(p.principalEmail),
                 request_source_origin |-> RequestSourceOrigin(p),
                 referenced_tables |-> tables,
                 datatransfer_details |->
                    [project_id |-> p.jobProjectId,
                     config_id |-> IF ~IsNone(p.dts_run_id) THEN p.dts_run_id
                                   ELSE p.jobId],
                 looker_studio_details |->
                    [dashboard_id |-> p.looker_studio_report_id,
                     datasource_id |-> p.looker_studio_datasource_id]] >>

\* The loop over the entries.
RECURSIVE NormalizeEntries(_)
NormalizeEntries(entries) ==
    IF entries = <<>> THEN <<>>
    ELSE NormalizeEntry(Head(entries)) \o NormalizeEntries(Tail(entries))

----------------------------------------------------------------------------
(* LoggingClient: the requested interval, the pull and the lookup. *)

\* _calculate_interval without the test "start_time > end_time".
CalculateIntervalUnordered(call, t) ==
    IF ~IsNone(call.days)
    THEN [error |-> "none", start |-> t - Val(call.days), end |-> t]
    ELSE IF ~IsNone(call.start_time)
    THEN [error |-> "none", start |-> Val(call.start_time),
          end |-> IF ~IsNone(call.end_time) THEN Val(call.end_time) ELSE t]
    ELSE [error |-> "Invalid arguments, datetime range missing.",
          start |-> 0, end |-> 0]

\* _calculate_interval(*args, **kwargs).  call.days is the first int among
\* the positional arguments (or the keyword days), call.start_time and
\* call.end_time the keywords, given as datetime objects, which
\* resolve_datetime returns as they are; call.extra tells whether a further
\* keyword is passed, which no statement reads.  Both reads of
\* datetime.now() give t.
CalculateInterval(call, t) ==
    IF ~IsNone(call.days)
    THEN [error |-> "none", start |-> t - Val(call.days), end |-> t]
    ELSE IF ~IsNone(call.start_time)
    THEN LET start == Val(call.start_time)
             end == IF ~IsNone(call.end_time) THEN Val(call.end_time) ELSE t
         IN  IF start > end
             THEN [error |-> "Start time must be before end time.",
                   start |-> start, end |-> end]
             ELSE [error |-> "none", start |-> start, end |-> end]
    ELSE [error |-> "Invalid arguments, datetime range missing.",
          start |-> 0, end |-> 0]

\* The backend: self.list_entries(filter_=..., order_by=DESCENDING) with the
\* time filter timestamp >= start and timestamp <= end.  The store is kept
\* in descending order of timestamp.
ListEntries(entries, start, end) ==
    LET InWindow(e) == e.timestamp >= start /\ e.timestamp <= end
    IN  SelectSeq(entries, InWindow)

\* How the backend behaves during one pull: it answers, it raises when the
\* listing is requested, or the iterator it returned raises after it has
\* delivered some entries (at most "after" of them).
Failures ==
    {[at |-> "none", after |-> 0], [at |-> "listing", after |-> 0],
     [at |-> "iterating", after |-> 1]}

Min(a, b) == IF a <= b THEN a ELSE b

\* logging.error("Error getting logs: %s", e)
ErrorGettingLogs(e) == [msg |-> "Error getting logs: %s", arg |-> e]

\* get_all_data_access_logs(*args, **kwargs) on the state (logs, cachev):
\* what it raises, how often it calls list_entries, what it logs with
\* logging.error, and the state it leaves.  The exception of the backend is
\* "backend"; pulled holds the entries the loop received.
GetAll(call, fail, logs, cachev, t, entries) ==
    LET iv == CalculateInterval(call, t)
    IN  IF iv.error # "none"
        THEN [error |-> iv.error, lists |-> 0, logs |-> logs, cache |-> cachev,
              pulled |-> <<>>, start |-> None, end |-> None, logged |-> <<>>]
        ELSE IF fail.at = "listing"
        THEN [error |-> "backend", lists |-> 1, logs |-> logs, cache |-> cachev,
              pulled |-> <<>>, start |-> Some(iv.start), end |-> Some(iv.end),
              logged |-> <<ErrorGettingLogs("backend")>>]
        ELSE LET listed == ListEntries(entries, iv.start, iv.end)
             IN  IF fail.at = "iterating"
                 THEN LET pulled == SubSeq(listed, 1, Min(fail.after, Len(listed)))
                      IN  [error |-> "backend", lists |-> 1,
                           logs |-> logs \o NormalizeEntries(pulled),
                           cache |-> cachev, pulled |-> pulled,
                           start |-> Some(iv.start), end |-> Some(iv.end),
                           logged |-> <<>>]
                 ELSE [error |-> "none", lists |-> 1,
                       logs |-> logs \o NormalizeEntries(listed),
                       cache |-> [cached |-> TRUE,
                                  start_time |-> Some(iv.start),
                                  end_time |-> Some(iv.end)],
                       pulled |-> listed,
                       start |-> Some(iv.start), end |-> Some(iv.end),
                       logged |-> <<>>]

\* The condition without the comparison of the end of the interval.
MustPullStartOnly(cachev, start, end) ==
    \/ ~cachev.cached
    \/ ~ ( /\ ~IsNone(cachev.start_time)
           /\ ~IsNone(cachev.end_time)
           /\ start >= Val(cachev.start_time) )

\* The condition under which get_all_data_access_logs_by_table_id pulls:
\* "the selected interval must be a sub-set of the cached one".
MustPull(cachev, start, end) ==
    \/ ~cachev.cached
    \/ ~ ( /\ ~IsNone(cachev.start_time)
           /\ ~IsNone(cachev.end_time)
           /\ start >= Val(cachev.start_time)
           /\ end <= Val(cachev.end_time) )

\* The list the lookup returns: x once for every referenced table of x that
\* equals table_full_path, both lower-cased.
RECURSIVE Repeat(_, _)
Repeat(x, n) == IF n = 0 THEN <<>> ELSE <<x>> \o Repeat(x, n - 1)

RECURSIVE RecordsOfTable(_, _)
RecordsOfTable(logs, table_full_path) ==
    IF logs = <<>> THEN <<>>
    ELSE LET x == Head(logs)
             hits == {tb \in x.referenced_tables :
                          Lower(tb) = Lower(table_full_path)}
         IN  Repeat(x, Cardinality(hits))
             \o RecordsOfTable(Tail(logs), table_full_path)

\* get_all_data_access_logs_by_table_id(table_full_path, *args, **kwargs).
\* pulls counts the calls of get_all_data_access_logs it makes.
ByTableId(table_full_path, call, fail, logs, cachev, t, entries) ==
    LET iv == CalculateInterval(call, t)
        same == [error |-> iv.error, pulls |-> 0, lists |-> 0, logs |-> logs,
                 cache |-> cachev, pulled |-> <<>>, returned |-> <<>>,
                 start |-> None, end |-> None, logged |-> <<>>]
    IN  IF iv.error # "none" THEN same
        ELSE IF Count(table_full_path, ".") # 2
        THEN [same EXCEPT !.error =
                "The first parameter must be in the format 'project.dataset.table'."]
        ELSE IF MustPull(cachev, iv.start, iv.end)
        THEN LET r == GetAll([days |-> None, start_time |-> Some(iv.start),
                              end_time |-> Some(iv.end), extra |-> FALSE],
                             fail, logs, cachev, t, entries)
             IN  [error |-> r.error, pulls |-> 1, lists |-> r.lists,
                  logs |-> r.logs, cache |-> r.cache, pulled |-> r.pulled,
                  returned |-> IF r.error = "none"
                               THEN RecordsOfTable(r.logs, table_full_path)
                               ELSE <<>>,
                  start |-> Some(iv.start), end |-> Some(iv.end),
                  logged |-> r.logged]
        ELSE [same EXCEPT !.returned = RecordsOfTable(logs, table_full_path),
                          !.start = Some(iv.start), !.end = Some(iv.end)]

----------------------------------------------------------------------------
(* Raw log entries: the payloads the backend can deliver. *)

NoPayload ==
    [principalEmail |-> None, callerSuppliedUserAgent |-> None,
     requestor |-> None, queryPriority |-> None,
     authorizationInfo |-> <<>>, referencedTables |-> <<>>,
     referencedViews |-> <<>>, jobProjectId |-> None, dts_run_id |-> None,
     jobId |-> None, looker_studio_report_id |-> None,
     looker_studio_datasource_id |-> None]

Resource(p, d, tb) ==
    <<"projects", "/", p, "/", "datasets", "/", d, "/", "tables", "/", tb>>

AuthItems ==
    { [resource |-> Some(Resource("p", "d", "t1")), granted |-> Some("True")],
      [resource |-> Some(Resource("p", "d", "t2")), granted |-> Some("True")],
      [resource |-> Some(Resource("p", "d", "t1")), granted |-> Some("False")],
      [resource |-> Some(Resource("p", "d", "t2")), granted |-> None],
      [resource |-> Some(Resource("p", "d", "t1")), granted |-> None],
      [resource |-> None, granted |-> Some("True")],
      [resource |-> Some(<<"projects", "/", "p", "/", "datasets", "/", "d">>),
       granted |-> Some("True")] }

TableRef(p, d, tb) == [projectId |-> Some(p), datasetId |-> Some(d), tableId |-> Some(tb)]

UserAgents ==
    { None, Some(UA_DATATRANSFER), Some(UA_POWER_BI_PREFIX),
      Some(UA_POWER_BI_PREFIX \o <<"/2.0">>), Some(<<"curl">>) }

SeqsUpTo(S, n) == UNION {[1..k -> S] : k \in 0..n}

\* The payloads drawn for the normalisation of one entry.
Payloads ==
    { [NoPayload EXCEPT !.callerSuppliedUserAgent = ua, !.requestor = rq,
                        !.queryPriority = qp, !.authorizationInfo = ai,
                        !.referencedTables = rt, !.referencedViews = rv] :
        ua \in UserAgents,
        rq \in {None, Some("looker_studio"), Some("other")},
        qp \in {None, Some("QUERY_INTERACTIVE"), Some("QUERY_BATCH")},
        ai \in SeqsUpTo(AuthItems, MaxItems),
        rt \in {<<>>, <<TableRef("p", "d", "t1")>>,
                <<TableRef("p", "d", "t1"), TableRef("p", "d", "t1")>>},
        rv \in {<<>>, <<TableRef("p", "d", "v1")>>} }

\* The entries the backend holds, in descending order of timestamp.
Granted(tb) == [resource |-> Some(Resource("p", "d", tb)), granted |-> Some("True")]

StoreA ==
    << [insert_id |-> "log2", timestamp |-> 1,
        payload |-> [NoPayload EXCEPT
            !.authorizationInfo = <<[resource |-> None, granted |-> Some("True")]>>]],
       [insert_id |-> "log1", timestamp |-> 1,
        payload |-> [NoPayload EXCEPT
            !.principalEmail = Some("user@example.com"),
            !.requestor = Some("looker_studio"),
            !.referencedTables = <<TableRef("P", "d", "t1")>>,
            !.referencedViews = <<TableRef("p", "d", "t2"), TableRef("p", "D", "t2")>>,
            !.looker_studio_report_id = Some("report")]],
       [insert_id |-> "log0", timestamp |-> 0,
        payload |-> [NoPayload EXCEPT
            !.callerSuppliedUserAgent = Some(UA_DATATRANSFER),
            !.authorizationInfo = <<Granted("t1")>>,
            !.dts_run_id = Some("run")]] >>

StoreB ==
    << [insert_id |-> "log1", timestamp |-> 1,
        payload |-> [NoPayload EXCEPT
            !.queryPriority = Some("QUERY_INTERACTIVE"),
            !.authorizationInfo = <<Granted("t1"), Granted("t2")>>]],
       [insert_id |-> "log0", timestamp |-> 0,
        payload |-> [NoPayload EXCEPT
            !.callerSuppliedUserAgent = Some(UA_POWER_BI_PREFIX \o <<"/2.0">>),
            !.authorizationInfo = <<Granted("t1")>>]] >>

Stores == {StoreA, StoreB}

\* The arguments of a call: a day count and/or the start_time and end_time
\* keywords, with or without a further keyword.
Times == 0..MaxTime
OptTimesOver(T) == {None} \cup {Some(t) : t \in T}
OptTimes == OptTimesOver(Times)
CallsOver(T) ==
    [days : {None}, start_time : {Some(t) : t \in T},
     end_time : OptTimesOver(T), extra : {FALSE}]
    \cup [days : {None}, start_time : {None}, end_time : {None, Some(0)},
          extra : {FALSE}]
    \cup { [days |-> Some(d), start_time |-> None, end_time |-> None,
            extra |-> FALSE] : d \in -1..1 }
Calls == CallsOver(Times)

\* Calls that also mix a day count with the keywords or pass a further
\* keyword.
MixedCallsOver(T) ==
    CallsOver(T)
    \cup { [days |-> Some(d), start_time |-> Some(0), end_time |-> e,
            extra |-> FALSE] : d \in -1..1, e \in {None, Some(0)} }
    \cup { [days |-> None, start_time |-> se[1], end_time |-> se[2],
            extra |-> TRUE] :
              se \in {<<None, None>>, <<Some(0), Some(0)>>} }

TableIds ==
    { <<"invalid_format">>,
      <<"p", ".", "d", ".", "t1", ".", "x">>,
      <<"p", ".", "d", ".", "t1">>,
      <<"P", ".", "D", ".", "t1">>,
      <<"p", ".", "d", ".", "t2">> }

----------------------------------------------------------------------------
(* The state machines. *)

NoCall ==
    [op |-> "none", error |-> "none", table |-> None, pulls |-> 0,
     lists |-> 0, pulled |-> <<>>, returned |-> <<>>,
     start |-> None, end |-> None,
     pre_cache |-> [cached |-> FALSE, start_time |-> None, end_time |-> None],
     pre_logs |-> <<>>,
     logged |-> <<>>, uploaded |-> None]

LogIdle ==
    /\ data_access_logs = <<>>
    /\ cache = [cached |-> FALSE, start_time |-> None, end_time |-> None]
    /\ now = 0
    /\ store = <<>>
    /\ calls = 0
    /\ last = NoCall
    /\ succeeded = FALSE

NormIdle ==
    /\ n_entry = [insert_id |-> "log0", timestamp |-> 0, payload |-> NoPayload]
    /\ n_out = [done |-> FALSE, origin |-> "none", records |-> <<>>]

\* LoggingClient.__init__
LogInit ==
    /\ data_access_logs = <<>>
    /\ cache = [cached |-> FALSE, start_time |-> None, end_time |-> None]
    /\ now = 0
    /\ store \in Stores
    /\ calls = 0
    /\ last = NoCall
    /\ succeeded = FALSE

\* The clock advances.
Tick ==
    /\ now < MaxTime
    /\ now' = now + 1
    /\ UNCHANGED <<data_access_logs, cache, store, calls, last, succeeded,
                   norm_vars, check_vars, ext_vars>>

\* A call of get_all_data_access_logs.
GetAllDataAccessLogs ==
    /\ calls < MaxCalls
    /\ \E call \in Calls, fail \in Failures :
          LET r == GetAll(call, fail, data_access_logs, cache, now, store)
          IN  /\ data_access_logs' = r.logs
              /\ cache' = r.cache
              /\ last' = [op |-> "get_all", error |-> r.error, table |-> None,
                          pulls |-> 1, lists |-> r.lists, pulled |-> r.pulled,
                          returned |-> IF r.error = "none" THEN r.logs ELSE <<>>,
                          start |-> r.start, end |-> r.end,
                          pre_cache |-> cache, pre_logs |-> data_access_logs,
                          logged |-> r.logged, uploaded |-> None]
              /\ succeeded' = (succeeded \/ (r.lists = 1 /\ r.error = "none"))
    /\ calls' = calls + 1
    /\ UNCHANGED <<now, store, norm_vars, check_vars, ext_vars>>

\* A call of get_all_data_access_logs_by_table_id.
GetAllDataAccessLogsByTableId ==
    /\ calls < MaxCalls
    /\ \E table_full_path \in TableIds, call \in Calls, fail \in Failures :
          LET r == ByTableId(table_full_path, call, fail, data_access_logs,
                             cache, now, store)
          IN  /\ data_access_logs' = r.logs
              /\ cache' = r.cache
              /\ last' = [op |-> "by_table_id", error |-> r.error,
                          table |-> Some(table_full_path),
                          pulls |-> r.pulls, lists |-> r.lists,
                          pulled |-> r.pulled, returned |-> r.returned,
                          start |-> r.start, end |-> r.end,
                          pre_cache |-> cache, pre_logs |-> data_access_logs,
                          logged |-> r.logged, uploaded |-> None]
              /\ succeeded' = (succeeded \/ (r.lists = 1 /\ r.error = "none"))
    /\ calls' = calls + 1
    /\ UNCHANGED <<now, store, norm_vars, check_vars, ext_vars>>

\* The export without the test of the cache flag.
ExportRefusedNever(cachev) == FALSE

\* Line 399: not self.cache.get("cached").
ExportRefused(cachev) == ~cachev.cached

\* export_logs_to_storage(bucket_name, file_name, file_format): uploaded is
\* the list of records whose flattened form is handed to upload_dict_to_gcs.
ExportLogsToStorage ==
    /\ calls < MaxCalls
    /\ last' = [NoCall EXCEPT
                  !.op = "export",
                  !.error = IF ExportRefused(cache)
                            THEN "No data in cache, you should get logs with the desidered time interval and then call this function."
                            ELSE "none",
                  !.uploaded = IF ExportRefused(cache) THEN None
                               ELSE Some(data_access_logs),
                  !.pre_cache = cache, !.pre_logs = data_access_logs]
    /\ calls' = calls + 1
    /\ UNCHANGED <<data_access_logs, cache, now, store, succeeded, norm_vars,
                   check_vars, ext_vars>>

----------------------------------------------------------------------------
(* LoggingClient._flatten_dictionaries.  A dictionary is the sequence of   *)
(* its items in insertion order, an item being [k, tag, v, d]: k the key   *)
(* (a sequence of tokens), and the value a string (tag "str", v = <<s>>),  *)
(* a list of strings (tag "list", v the elements) or a dictionary (tag     *)
(* "dict", d its items).                                                   *)

ScalarItem(k, s) == [k |-> k, tag |-> "str", v |-> <<s>>, d |-> <<>>]
ListItem(k, elements) == [k |-> k, tag |-> "list", v |-> elements, d |-> <<>>]
DictItem(k, items) == [k |-> k, tag |-> "dict", v |-> <<>>, d |-> items]

DictHas(d, k) == \E i \in 1..Len(d) : d[i].k = k
DictGet(d, k) == d[CHOOSE i \in 1..Len(d) : d[i].k = k]

\* d[item.k] = item's value: an existing key keeps its position.
DictSet(d, item) ==
    IF DictHas(d, item.k)
    THEN [i \in 1..Len(d) |-> IF d[i].k = item.k THEN item ELSE d[i]]
    ELSE Append(d, item)

\* d.update(other)
RECURSIVE DictUpdate(_, _)
DictUpdate(d, other) ==
    IF other = <<>> THEN d
    ELSE DictUpdate(DictSet(d, Head(other)), Tail(other))

\* flatten_dictionary(dictionary, parent_key, separator="."): the loop over
\* dictionary.items(), flattened being the dictionary built so far.
RECURSIVE flatten_dictionary(_, _, _)
flatten_dictionary(flattened, dictionary, parent_key) ==
    IF dictionary = <<>> THEN flattened
    ELSE LET it == Head(dictionary)
             new_key == IF parent_key # <<>>
                        THEN parent_key \o <<".">> \o it.k
                        ELSE it.k
         IN  flatten_dictionary(
                 IF it.tag = "dict"
                 THEN DictUpdate(flattened,
                                 flatten_dictionary(<<>>, it.d, new_key))
                 ELSE DictSet(flattened, [it EXCEPT !.k = new_key]),
                 Tail(dictionary), parent_key)

\* The rows "for item in value" appends for the list-valued item at
\* position i of return_value: the other items, then the key with one element.
RowsOfListItem(return_value, i) ==
    LET key == return_value[i].k
        Other(it) == it.k # key
    IN  [e \in 1..Len(return_value[i].v) |->
            Append(SelectSeq(return_value, Other),
                   ScalarItem(key, return_value[i].v[e]))]

\* The rows of the first list-valued item only.
RECURSIVE RowsOfListItemsFirstOnly(_, _)
RowsOfListItemsFirstOnly(return_value, i) ==
    IF i > Len(return_value) THEN <<>>
    ELSE IF return_value[i].tag = "list"
    THEN RowsOfListItem(return_value, i)
    ELSE RowsOfListItemsFirstOnly(return_value, i + 1)

\* "for key, value in return_value.items(): if isinstance(value, list)",
\* from position i on.
RECURSIVE RowsOfListItems(_, _)
RowsOfListItems(return_value, i) ==
    IF i > Len(return_value) THEN <<>>
    ELSE (IF return_value[i].tag = "list"
          THEN RowsOfListItem(return_value, i) ELSE <<>>)
         \o RowsOfListItems(return_value, i + 1)

\* The rows one record of data_access_logs adds to expanded_data.
ExpandRecord(item) ==
    LET return_value == flatten_dictionary(<<>>, item, <<>>)
        has_list == \E i \in 1..Len(return_value) : return_value[i].tag = "list"
    IN  IF has_list THEN RowsOfListItems(return_value, 1)
        ELSE <<return_value>>

\* _flatten_dictionaries() on self.data_access_logs = logs.
RECURSIVE FlattenDictionaries(_)
FlattenDictionaries(logs) ==
    IF logs = <<>> THEN <<>>
    ELSE ExpandRecord(Head(logs)) \o FlattenDictionaries(Tail(logs))

----------------------------------------------------------------------------
(* utils/data_checks.py: Python conversions on the values of a CSV file.   *)
(* A value is the sequence of its characters, over digits, " " and "x".    *)

Digits == <<"0", "1", "2", "3", "4", "5", "6", "7", "8", "9">>
IsDigit(c) == c \in Range(Digits)
DigitValue(c) == (CHOOSE i \in 1..Len(Digits) : Digits[i] = c) - 1

\* str.strip()
RECURSIVE LStrip(_)
LStrip(v) == IF v # <<>> /\ Head(v) = " " THEN LStrip(Tail(v)) ELSE v
RECURSIVE RStrip(_)
RStrip(v) ==
    IF v # <<>> /\ v[Len(v)] = " " THEN RStrip(SubSeq(v, 1, Len(v) - 1)) ELSE v
Strip(v) == RStrip(LStrip(v))

RECURSIVE NumberOf(_)
NumberOf(v) ==
    IF v = <<>> THEN 0
    ELSE 10 * NumberOf(SubSeq(v, 1, Len(v) - 1)) + DigitValue(v[Len(v)])

\* int(v) and float(v) of a string: surrounding white space is ignored and
\* the rest must be a number; ValueError otherwise.
ParseNumber(v) ==
    LET w == Strip(v)
    IN  IF w # <<>> /\ \A i \in 1..Len(w) : IsDigit(w[i])
        THEN [ok |-> TRUE, n |-> NumberOf(w)]
        ELSE [ok |-> FALSE, n |-> 0]

\* re.compile(regex_pattern) succeeds.
ReCompiles(regex_pattern) == regex_pattern # "("

\* re.compile(regex_pattern).match(v) finds a match, for the patterns the
\* model calls the check with.
ReMatch(regex_pattern, v) ==
    CASE regex_pattern = "[0-9]+" -> v # <<>> /\ IsDigit(v[1])
      [] regex_pattern = "^[0-9]+$" ->
            v # <<>> /\ \A i \in 1..Len(v) : IsDigit(v[i])
      [] OTHER -> FALSE

\* datetime.strptime(v, date_format) succeeds.  Under "%d" v is a day of the
\* month, 1 to 31, with an optional leading zero or space; under the default
\* "%Y-%m-%d" no value without "-" parses.
Strptime(v, date_format) ==
    /\ date_format = "%d"
    /\ \/ Len(v) = 1 /\ IsDigit(v[1]) /\ v[1] # "0"
       \/ /\ Len(v) = 2
          /\ \/ v[1] \in {" ", "0"} /\ IsDigit(v[2]) /\ v[2] # "0"
             \/ v[1] \in {"1", "2"} /\ IsDigit(v[2])
             \/ v[1] = "3" /\ v[2] \in {"0", "1"}

----------------------------------------------------------------------------
(* csv.DictReader *)

Max(S) == CHOOSE x \in S : \A y \in S : y <= x

\* The dictionary DictReader builds from the values of one line: every
\* field name is a key; a name with no value gets restval (None); values
\* beyond the field names are kept as a list under restkey (None).
DictRow(fieldnames, values) ==
    [vals |-> [n \in Range(fieldnames) |->
                  LET i == Max({j \in 1..Len(fieldnames) : fieldnames[j] = n})
                  IN  IF i <= Len(values) THEN Some(values[i]) ELSE None],
     rest |-> IF Len(values) > Len(fieldnames)
              THEN SubSeq(values, Len(fieldnames) + 1, Len(values))
              ELSE <<>>]

\* len(row)
RowLen(row) == Cardinality(DOMAIN row.vals) + (IF row.rest # <<>> THEN 1 ELSE 0)

\* row.get(column_name)
RowGet(row, column_name) ==
    IF column_name \in DOMAIN row.vals THEN row.vals[column_name] ELSE None

----------------------------------------------------------------------------
(* The built-in checks.  The result of a check invocation: the exception   *)
(* it raises ("none" when it returns), what the failure is about, the      *)
(* accumulators as it leaves them, and the columns whose row value it read.*)

Returns(sums) == [exc |-> "none", kind |-> "none", sums |-> sums]
Raises(exc, kind, sums) == [exc |-> exc, kind |-> kind, sums |-> sums]

\* check_unique: the body of the loop for one column of the header.
UniqueColumn(check, idx, row, column_sums_, column_name) ==
    LET value == RowGet(row, column_name)
    IN  IF value \in column_sums_[column_name]
        THEN Raises("ValueError", "duplicate", column_sums_)
        ELSE Returns([column_sums_ EXCEPT ![column_name] = @ \cup {value}])

\* check_no_nulls
NoNullsColumn(check, idx, row, column_sums_, column_name) ==
    LET value == RowGet(row, column_name)
    IN  IF IsNone(value)
        THEN Raises("AttributeError", "strip of None", column_sums_)
        ELSE IF Strip(Val(value)) = <<>>
        THEN Raises("ValueError", "null", column_sums_)
        ELSE Returns(column_sums_)

\* check_numeric_range
NumericRangeColumn(check, idx, row, column_sums_, column_name) ==
    LET value == RowGet(row, column_name)
    IN  IF IsNone(value) \/ value = Some(<<>>) THEN Returns(column_sums_)
        ELSE LET numeric_value == ParseNumber(Val(value))
             IN  IF ~numeric_value.ok
                 THEN Raises("ValueError", "non-numeric", column_sums_)
                 ELSE IF \/ numeric_value.n < Val(check.min_value)
                         \/ numeric_value.n > Val(check.max_value)
                 THEN Raises("ValueError", "out of range", column_sums_)
                 ELSE Returns(column_sums_)

\* check_string_pattern: match is evaluated first, on any value.
StringPatternColumn(check, idx, row, column_sums_, column_name) ==
    LET value == RowGet(row, column_name)
    IN  IF IsNone(value)
        THEN Raises("TypeError", "match of None", column_sums_)
        ELSE IF ~ReMatch(check.regex_pattern, Val(value)) /\ Val(value) # <<>>
        THEN Raises("ValueError", "pattern", column_sums_)
        ELSE Returns(column_sums_)

\* check_date_format
DateFormatColumn(check, idx, row, column_sums_, column_name) ==
    LET value == RowGet(row, column_name)
    IN  IF ~IsNone(value) /\ Val(value) # <<>>
           /\ ~Strptime(Val(value), check.date_format)
        THEN Raises("ValueError", "date", column_sums_)
        ELSE Returns(column_sums_)

\* expected_datatype(value) succeeds, for int, float and str.
Converts(datatype, v) ==
    CASE datatype = "str" -> TRUE
      [] OTHER -> ParseNumber(v).ok

\* check_datatype
DatatypeColumn(check, idx, row, column_sums_, column_name) ==
    LET value == RowGet(row, column_name)
    IN  IF ~IsNone(value) /\ Val(value) # <<>>
           /\ ~Converts(Val(check.expected_datatype), Val(value))
        THEN Raises("ValueError", "datatype", column_sums_)
        ELSE Returns(column_sums_)

\* check_in_set: the loop over valid_values_set from item i on.  "found",
\* "not found", or "error" when the conversion of the value raises.  An item
\* is an int or a str, given by its type and its literal.
RECURSIVE InSetFrom(_, _, _)
InSetFrom(valid_values_set, i, value) ==
    IF i > Len(valid_values_set) THEN "not found"
    ELSE LET item == valid_values_set[i]
         IN  IF item.type = "int"
             THEN IF IsNone(value) \/ ~ParseNumber(Val(value)).ok THEN "error"
                  ELSE IF NumberOf(item.v) = ParseNumber(Val(value)).n THEN "found"
                  ELSE InSetFrom(valid_values_set, i + 1, value)
             ELSE IF item.v = (IF IsNone(value) THEN <<"N", "o", "n", "e">>
                               ELSE Val(value))
                  THEN "found"
                  ELSE InSetFrom(valid_values_set, i + 1, value)

InSetColumn(check, idx, row, column_sums_, column_name) ==
    LET value == RowGet(row, column_name)
        found == InSetFrom(Val(check.valid_values_set), 1, value)
    IN  IF found = "error" THEN Raises("ValueError", "coercion", column_sums_)
        ELSE IF found = "not found"
        THEN Raises("ValueError", "not in set", column_sums_)
        ELSE Returns(column_sums_)

ColumnBody(check, idx, row, column_sums_, column_name) ==
    CASE check.name = "check_unique" ->
            UniqueColumn(check, idx, row, column_sums_, column_name)
      [] check.name = "check_no_nulls" ->
            NoNullsColumn(check, idx, row, column_sums_, column_name)
      [] check.name = "check_numeric_range" ->
            NumericRangeColumn(check, idx, row, column_sums_, column_name)
      [] check.name = "check_string_pattern" ->
            StringPatternColumn(check, idx, row, column_sums_, column_name)
      [] check.name = "check_date_format" ->
            DateFormatColumn(check, idx, row, column_sums_, column_name)
      [] check.name = "check_datatype" ->
            DatatypeColumn(check, idx, row, column_sums_, column_name)
      [] check.name = "check_in_set" ->
            InSetColumn(check, idx, row, column_sums_, column_name)

\* "for column_name in columns_to_test:" from position i on; every check
\* starts the body of this loop with the test of the name against the header.
\* read: the columns whose value the check has read from the row.
RECURSIVE ColumnLoop(_, _, _, _, _, _, _, _)
ColumnLoop(check, idx, row, header_, column_sums_, columns_to_test, i, read) ==
    IF i > Len(columns_to_test)
    THEN [exc |-> "none", kind |-> "none", sums |-> column_sums_, read |-> read]
    ELSE IF columns_to_test[i] \notin Range(header_)
    THEN [exc |-> "ValueError", kind |-> "unknown column",
          sums |-> column_sums_, read |-> read]
    ELSE LET b == ColumnBody(check, idx, row, column_sums_, columns_to_test[i])
             seen == read \cup {columns_to_test[i]}
         IN  IF b.exc # "none"
             THEN [exc |-> b.exc, kind |-> b.kind, sums |-> b.sums, read |-> seen]
             ELSE ColumnLoop(check, idx, row, header_, b.sums,
                             columns_to_test, i + 1, seen)

\* "columns_to_test = columns_to_test or header"
ColumnsToTest(check, header_) ==
    IF IsNone(check.columns_to_test) \/ Val(check.columns_to_test) = <<>>
    THEN header_ ELSE Val(check.columns_to_test)

\* What a check raises before its loop over the columns ("none": nothing).
ConfigurationError(check) ==
    CASE check.name = "check_numeric_range"
            /\ (IsNone(check.min_value) \/ IsNone(check.max_value)) ->
            "Min value or max value missing!"
      [] check.name = "check_string_pattern" /\ check.regex_pattern = "" ->
            "REGEX is NULL!"
      [] check.name = "check_string_pattern" /\ ~ReCompiles(check.regex_pattern) ->
            "Pattern regex is not valid"
      [] check.name = "check_datatype" /\ IsNone(check.expected_datatype) ->
            "An expected datatype should be specified."
      [] check.name = "check_in_set" /\ IsNone(check.valid_values_set) ->
            "The set of valid values cannot be empty"
      [] OTHER -> "none"

\* test_function(idx, row, header, column_sums)
CheckFunction(check, idx, row, header_, column_sums_) ==
    IF check.name = "check_columns"
    THEN IF RowLen(row) # Len(header_)
         THEN [exc |-> "ValueError", kind |-> "row length",
               sums |-> column_sums_, read |-> {}]
         ELSE [exc |-> "none", kind |-> "none", sums |-> column_sums_, read |-> {}]
    ELSE IF ConfigurationError(check) # "none"
    THEN [exc |-> "ValueError", kind |-> ConfigurationError(check),
          sums |-> column_sums_, read |-> {}]
    ELSE ColumnLoop(check, idx, row, header_, column_sums_,
                    ColumnsToTest(check, header_), 1, {})

----------------------------------------------------------------------------
(* The files and the check lists run_data_checks is called with. *)

Headers == { <<"a", "b">>, <<"a", "a">> }

\* The values of one line of the file, as csv.reader splits it (DictReader
\* skips the lines without any value).
RawRows ==
    { <<<<"1">>>>, <<<<>>>>,
      <<<<"1">>, <<"2">>>>, <<<<"2">>, <<"1">>>>, <<<<"1">>, <<"1">>>>,
      <<<<"1">>, <<"x">>>>, <<<<"x">>, <<"1">>>>, <<<<>>, <<"1">>>>,
      <<<<" ">>, <<"2">>>>, <<<<"1">>, <<>>>>,
      <<<<"1">>, <<"2">>, <<"x">>>>, <<<<"2">>, <<"1">>, <<"1">>>> }

\* A check function with the arguments bound to it.
Check(name) ==
    [name |-> name, columns_to_test |-> None, min_value |-> None,
     max_value |-> None, regex_pattern |-> "", date_format |-> "%Y-%m-%d",
     expected_datatype |-> None, valid_values_set |-> None]

ColumnChoices ==
    { None, Some(<<"a">>), Some(<<"b">>), Some(<<"a", "zz">>),
      Some(<<"zz", "a">>), Some(<<"a", "a">>) }

IntItem(v) == [type |-> "int", v |-> v]
StrItem(v) == [type |-> "str", v |-> v]

CheckArguments ==
    {Check("check_unique"), Check("check_no_nulls")}
    \cup {[Check("check_numeric_range") EXCEPT !.min_value = mn, !.max_value = Some(1)] :
            mn \in {None, Some(1)}}
    \cup {[Check("check_string_pattern") EXCEPT !.regex_pattern = re] :
            re \in {"", "(", "[0-9]+", "^[0-9]+$"}}
    \cup {[Check("check_date_format") EXCEPT !.date_format = f] :
            f \in {"%Y-%m-%d", "%d"}}
    \cup {[Check("check_datatype") EXCEPT !.expected_datatype = dt] :
            dt \in {None, Some("int"), Some("str")}}
    \cup {[Check("check_in_set") EXCEPT !.valid_values_set = vs] :
            vs \in {None, Some(<<>>), Some(<<IntItem(<<"1">>)>>),
                    Some(<<StrItem(<<"x">>), IntItem(<<"1">>)>>),
                    Some(<<IntItem(<<"1">>), StrItem(<<"x">>)>>)}}

ColumnChecks ==
    {[c EXCEPT !.columns_to_test = cols] : c \in CheckArguments, cols \in ColumnChoices}

Unique(cols) == [Check("check_unique") EXCEPT !.columns_to_test = cols]

CheckLists ==
    {<<c>> : c \in ColumnChecks \cup {Check("check_columns")}}
    \cup { <<Check("check_columns"), Check("check_unique")>>,
           <<Check("check_unique"), Check("check_no_nulls")>>,
           <<Check("check_no_nulls"), Unique(Some(<<"a">>))>>,
           <<Unique(Some(<<"a">>)), Unique(Some(<<"a">>))>>,
           <<Unique(Some(<<"a">>)), Unique(Some(<<"b">>))>>,
           <<Unique(Some(<<"a">>)), Check("check_unique")>>,
           <<[Check("check_numeric_range") EXCEPT !.min_value = Some(1),
                                                 !.max_value = Some(1)],
             [Check("check_datatype") EXCEPT !.expected_datatype = Some("int")]>>,
           <<[Check("check_string_pattern") EXCEPT !.regex_pattern = "[0-9]+"],
             Check("check_columns")>> }

----------------------------------------------------------------------------
(* run_data_checks: the loop over the rows and, for each row, the checks. *)

ChecksIdle ==
    /\ header = <<>>
    /\ data_checks = <<>>
    /\ rows = <<>>
    /\ column_sums = <<>>
    /\ ci = 0
    /\ invoked = <<>>
    /\ outcome = "idle"

\* The file is open, the header is read and the accumulators are created.
ChecksInit ==
    /\ header \in Headers
    /\ data_checks \in CheckLists
    /\ rows = <<>>
    /\ column_sums = [n \in Range(header) |-> {}]
    /\ ci = 0
    /\ invoked = <<>>
    /\ outcome = "running"

\* enumerate(reader, start=1): the index of the k-th row the reader yields.
RowIndex(k) == k

\* An except clause that catches ValueError alone.
AfterCheckValueErrorOnly(exc) ==
    IF exc = "ValueError" THEN "False"
    ELSE IF exc = "none" THEN "running"
    ELSE "raised"

\* What run_data_checks does with the result of a check invocation:
\* the except clause catches TypeError and ValueError and returns False.
AfterCheck(exc) ==
    IF exc \in {"TypeError", "ValueError"} THEN "False"
    ELSE IF exc = "none" THEN "running"
    ELSE "raised"

\* The position of the check to invoke after the one at position k returned:
\* the next of the list, or 0 when the row is done.
NextCheck(k, n) == IF k < n THEN k + 1 ELSE 0

\* The reader yields the next row.
ReadRow ==
    /\ outcome = "running"
    /\ ci = 0
    /\ Len(rows) < MaxRows
    /\ \E values \in RawRows : rows' = Append(rows, values)
    /\ ci' = 1
    /\ UNCHANGED <<header, data_checks, column_sums, invoked, outcome,
                   log_vars, norm_vars, ext_vars>>

\* One pass of the inner loop: the check at position ci is invoked on the
\* current row.
InvokeCheck ==
    /\ outcome = "running"
    /\ ci >= 1
    /\ LET idx == RowIndex(Len(rows))
           r == CheckFunction(data_checks[ci], idx,
                              DictRow(header, rows[Len(rows)]), header,
                              column_sums)
       IN  /\ invoked' = Append(invoked,
                  [idx |-> idx, position |-> ci, exc |-> r.exc, kind |-> r.kind,
                   read |-> r.read, before |-> column_sums, after |-> r.sums])
           /\ column_sums' = r.sums
           /\ outcome' = AfterCheck(r.exc)
           /\ ci' = IF r.exc = "none" THEN NextCheck(ci, Len(data_checks)) ELSE ci
    /\ UNCHANGED <<header, data_checks, rows, log_vars, norm_vars, ext_vars>>

\* The reader is exhausted: "All data checks passed."
EndOfFile ==
    /\ outcome = "running"
    /\ ci = 0
    /\ outcome' = "True"
    /\ UNCHANGED <<header, data_checks, rows, column_sums, ci, invoked,
                   log_vars, norm_vars, ext_vars>>

----------------------------------------------------------------------------
(* The normalisation of one entry, for every payload. *)

NormInit ==
    /\ n_entry \in {[insert_id |-> "log0", timestamp |-> 0, payload |-> p] :
                      p \in Payloads}
    /\ n_out = [done |-> FALSE, origin |-> "none", records |-> <<>>]

\* One pass of the loop over the entries, on n_entry.
NormalizeOne ==
    /\ ~n_out.done
    /\ n_out' = [done |-> TRUE,
                 origin |-> RequestSourceOrigin(n_entry.payload),
                 records |-> NormalizeEntry(n_entry)]
    /\ UNCHANGED <<n_entry, log_vars, check_vars, ext_vars>>

----------------------------------------------------------------------------
(* _flatten_dictionaries on the records a caller can hold in               *)
(* data_access_logs.                                                       *)

MaxList == 2        \* longest list value of a record handed to _flatten_dictionaries

Elements == <<"value1", "value2", "value3", "value4">>

\* The item key1: a string, a list, a list with a repeated
\* element, a dictionary holding a string or a list.
ListsUpTo(n) == {SubSeq(Elements, 1, k) : k \in 0..n}
FlatValues ==
    {ScalarItem(<<"key1">>, "x"), ListItem(<<"key1">>, <<"value1", "value1">>),
     DictItem(<<"key1">>, <<ScalarItem(<<"subkey1">>, "y")>>)}
    \cup {ListItem(<<"key1">>, l) : l \in ListsUpTo(MaxList)}
    \cup {DictItem(<<"key1">>, <<ListItem(<<"subkey1">>, l),
                                  ScalarItem(<<"subkey2">>, "y")>>) :
             l \in ListsUpTo(MaxList)}

\* The items after key1 and key2: nothing, a string, a second list, or a key
\* that the flattening of key1 also produces.
FlatTails ==
    {<<>>, <<ScalarItem(<<"key3">>, "z")>>,
     <<ScalarItem(<<"key1", ".", "subkey1">>, "z")>>}
    \cup {<<ListItem(<<"key3">>, l)>> : l \in ListsUpTo(MaxList)}

FlatRecords ==
    {<<>>, <<ScalarItem(<<"key1">>, "value1"), ScalarItem(<<"key2">>, "value2")>>,
     <<DictItem(<<"key1">>, <<DictItem(<<"subkey1">>,
                                       <<ListItem(<<"leaf">>, <<"value1">>)>>)>>)>>}
    \cup {<<a, ScalarItem(<<"key2">>, "value2")>> \o tl :
             a \in FlatValues, tl \in FlatTails}

FlatLogs ==
    {<<>>} \cup {<<r>> : r \in FlatRecords}
    \cup {<<r, q>> : r \in FlatRecords,
                     q \in {<<>>, <<ListItem(<<"key1">>, <<"value1", "value2">>),
                                    ScalarItem(<<"key2">>, "value2")>>}}

FlatIdle == f_logs = <<>> /\ f_out = None
FlatInit == f_logs \in FlatLogs /\ f_out = None

\* A call of _flatten_dictionaries.
FlattenDictionariesCall ==
    /\ IsNone(f_out)
    /\ f_out' = Some(FlattenDictionaries(f_logs))
    /\ UNCHANGED <<f_logs, log_vars, norm_vars, check_vars, interval_vars,
                   more_vars>>

----------------------------------------------------------------------------
(* The arguments of a pull: _calculate_interval, and                       *)
(* get_all_data_access_logs on a new client, for every combination of the  *)
(* arguments.                                                              *)

IntervalTimes == 0..(MaxTime + 1)
IntervalCalls == MixedCallsOver(IntervalTimes)

IntervalIdle ==
    /\ i_call = [days |-> None, start_time |-> None, end_time |-> None,
                 extra |-> FALSE]
    /\ i_now = 0
    /\ i_store = <<>>
    /\ i_out = None
IntervalInit ==
    /\ i_call \in IntervalCalls
    /\ i_now \in IntervalTimes
    /\ i_store \in Stores
    /\ i_out = None

\* A call of _calculate_interval.
CalculateIntervalCall ==
    /\ IsNone(i_out)
    /\ LET iv == CalculateInterval(i_call, i_now)
       IN  i_out' = Some([op |-> "_calculate_interval", error |-> iv.error,
                          start |-> iv.start, end |-> iv.end, lists |-> 0])
    /\ UNCHANGED <<i_call, i_now, i_store, log_vars, norm_vars, check_vars,
                   flat_vars, more_vars>>

\* A call of get_all_data_access_logs on a client that has made no pull.
GetAllDataAccessLogsOnNewClient ==
    /\ IsNone(i_out)
    /\ LET r == GetAll(i_call, [at |-> "none", after |-> 0], <<>>,
                       [cached |-> FALSE, start_time |-> None,
                        end_time |-> None], i_now, i_store)
       IN  i_out' = Some([op |-> "get_all_data_access_logs", error |-> r.error,
                          start |-> IF IsNone(r.start) THEN 0 ELSE Val(r.start),
                          end |-> IF IsNone(r.end) THEN 0 ELSE Val(r.end),
                          lists |-> r.lists])
    /\ UNCHANGED <<i_call, i_now, i_store, log_vars, norm_vars, check_vars,
                   flat_vars, more_vars>>

----------------------------------------------------------------------------
(* SingletonBase.__new__ (utils/singleton_base.py), run by several threads *)
(* for the same subclass.  A thread is at one of the lines of __new__:     *)
(* "check" (27), "acquire" (28), "recheck" (29), "new" (34), "initialize"  *)
(* (36), "register" (40), "except" (46), "raise" (an exception leaves the  *)
(* with block), "release" (the with block ends) and "return" (57).         *)

MaxThreads == 2      \* threads that construct the class
MaxConstructs == 2   \* constructor calls of one thread

Threads == 1..MaxThreads

\* How a run of cls._initialize can end.
InitializeOutcomes == {"ok", "OSError", "Exception"}

\* Line 27: cls not in cls._instances, outside the lock.
FirstCheckMisses(instances) == IsNone(instances)

\* The second check replaced by a constant.
SecondCheckSkipped(instances) == TRUE

\* Line 29: cls not in cls._instances, inside the lock.
SecondCheckMisses(instances) == IsNone(instances)

SingleIdle ==
    /\ s_pc = <<>> /\ s_instances = None /\ s_lock = 0
    /\ s_instance = <<>> /\ s_calls = <<>>
    /\ s_hist = [created |-> 0, runs |-> 0, completed |-> 0,
                 registered |-> <<>>, returned |-> {}, raised |-> {}]

SingleInit ==
    /\ s_pc = [t \in Threads |-> "idle"]
    /\ s_instances = None
    /\ s_lock = 0
    /\ s_instance = [t \in Threads |-> 0]
    /\ s_calls = [t \in Threads |-> 0]
    /\ s_hist = [created |-> 0, runs |-> 0, completed |-> 0,
                 registered |-> <<>>, returned |-> {}, raised |-> {}]

\* A thread calls cls(...).
Construct(t) ==
    /\ s_pc[t] = "idle"
    /\ s_calls[t] < MaxConstructs
    /\ s_calls' = [s_calls EXCEPT ![t] = @ + 1]
    /\ s_pc' = [s_pc EXCEPT ![t] = "check"]
    /\ UNCHANGED <<s_instances, s_lock, s_instance, s_hist, old_vars,
                   client_vars, transfer_vars, nest_vars>>

\* Line 27.
FirstCheck(t) ==
    /\ s_pc[t] = "check"
    /\ s_pc' = [s_pc EXCEPT ![t] = IF FirstCheckMisses(s_instances)
                                   THEN "acquire" ELSE "return"]
    /\ UNCHANGED <<s_instances, s_lock, s_instance, s_calls, s_hist, old_vars,
                   client_vars, transfer_vars, nest_vars>>

\* Line 28: with cls._lock, which blocks while another thread holds the lock.
Acquire(t) ==
    /\ s_pc[t] = "acquire"
    /\ s_lock = 0
    /\ s_lock' = t
    /\ s_pc' = [s_pc EXCEPT ![t] = "recheck"]
    /\ UNCHANGED <<s_instances, s_instance, s_calls, s_hist, old_vars,
                   client_vars, transfer_vars, nest_vars>>

\* Line 29.
SecondCheck(t) ==
    /\ s_pc[t] = "recheck"
    /\ s_pc' = [s_pc EXCEPT ![t] = IF SecondCheckMisses(s_instances)
                                   THEN "new" ELSE "release"]
    /\ UNCHANGED <<s_instances, s_lock, s_instance, s_calls, s_hist, old_vars,
                   client_vars, transfer_vars, nest_vars>>

\* Line 34: instance = super().__new__(cls).
NewInstance(t) ==
    /\ s_pc[t] = "new"
    /\ s_instance' = [s_instance EXCEPT ![t] = s_hist.created + 1]
    /\ s_hist' = [s_hist EXCEPT !.created = @ + 1]
    /\ s_pc' = [s_pc EXCEPT ![t] = "initialize"]
    /\ UNCHANGED <<s_instances, s_lock, s_calls, old_vars,
                   client_vars, transfer_vars, nest_vars>>

\* Lines 36-39: instance._initialize(*args, **kwargs), which returns or raises.
Initialize(t) ==
    /\ s_pc[t] = "initialize"
    /\ \E o \in InitializeOutcomes :
          /\ s_hist' = [s_hist EXCEPT !.runs = @ + 1,
                                      !.completed = IF o = "ok" THEN @ + 1 ELSE @,
                                      !.raised = IF o = "Exception"
                                                 THEN @ \cup {"Exception"} ELSE @]
          /\ s_pc' = [s_pc EXCEPT ![t] = CASE o = "ok" -> "register"
                                           [] o = "OSError" -> "except"
                                           [] OTHER -> "raise"]
    /\ UNCHANGED <<s_instances, s_lock, s_instance, s_calls, old_vars,
                   client_vars, transfer_vars, nest_vars>>

\* Line 40: cls._instances[cls] = instance.
Register(t) ==
    /\ s_pc[t] = "register"
    /\ s_instances' = Some(s_instance[t])
    /\ s_hist' = [s_hist EXCEPT !.registered = Append(@, s_instance[t])]
    /\ s_pc' = [s_pc EXCEPT ![t] = "release"]
    /\ UNCHANGED <<s_lock, s_instance, s_calls, old_vars,
                   client_vars, transfer_vars, nest_vars>>

\* Lines 46-54: the OSError is logged and RuntimeError is raised from it.
ExceptOSError(t) ==
    /\ s_pc[t] = "except"
    /\ s_hist' = [s_hist EXCEPT !.raised = @ \cup {"RuntimeError"}]
    /\ s_pc' = [s_pc EXCEPT ![t] = "raise"]
    /\ UNCHANGED <<s_instances, s_lock, s_instance, s_calls, old_vars,
                   client_vars, transfer_vars, nest_vars>>

\* The exception leaves the with block, which releases the lock, and then
\* the constructor call.
Raise(t) ==
    /\ s_pc[t] = "raise"
    /\ s_lock' = 0
    /\ s_pc' = [s_pc EXCEPT ![t] = "idle"]
    /\ UNCHANGED <<s_instances, s_instance, s_calls, s_hist, old_vars,
                   client_vars, transfer_vars, nest_vars>>

\* The with block ends and releases the lock.
Release(t) ==
    /\ s_pc[t] = "release"
    /\ s_lock' = 0
    /\ s_pc' = [s_pc EXCEPT ![t] = "return"]
    /\ UNCHANGED <<s_instances, s_instance, s_calls, s_hist, old_vars,
                   client_vars, transfer_vars, nest_vars>>

\* Line 57: return cls._instances[cls].
Return(t) ==
    /\ s_pc[t] = "return"
    /\ s_hist' = [s_hist EXCEPT !.returned = @ \cup {Val(s_instances)}]
    /\ s_pc' = [s_pc EXCEPT ![t] = "idle"]
    /\ UNCHANGED <<s_instances, s_lock, s_instance, s_calls, old_vars,
                   client_vars, transfer_vars, nest_vars>>

----------------------------------------------------------------------------
(* SingletonBase.__new__ (utils/singleton_base.py) for two subclasses, one *)
(* of which constructs the other in its _initialize.  _instances and _lock *)
(* are attributes of SingletonBase itself (lines 14-15): every subclass    *)
(* reads the same dictionary and the same threading.Lock, which its holder *)
(* cannot acquire a second time.  A thread is in a stack of constructor    *)
(* calls, each at one of the lines of __new__ named above; _initialize     *)
(* returns normally.                                                       *)

Classes == {"Outer", "Inner"}

\* The class that cls._initialize constructs, if any.
InitializeConstructs(cls) == IF cls = "Outer" THEN Some("Inner") ELSE None

Top(stack) == stack[Len(stack)]
AtLine(t, pc) == p_stack[t] # <<>> /\ Top(p_stack[t]).pc = pc
GoTo(stack, pc) == [stack EXCEPT ![Len(stack)].pc = pc]

p_frame == <<old_vars, single_vars, client_vars, transfer_vars>>

NestIdle ==
    /\ p_stack = <<>> /\ p_instances = <<>> /\ p_lock = 0
    /\ p_calls = <<>> /\ p_created = 0

NestInit ==
    /\ p_stack = [t \in Threads |-> <<>>]
    /\ p_instances = [c \in Classes |-> None]
    /\ p_lock = 0
    /\ p_calls = [t \in Threads |-> 0]
    /\ p_created = 0

\* A thread calls c(...).
NestedConstruct(t, c) ==
    /\ p_stack[t] = <<>>
    /\ p_calls[t] < MaxConstructs
    /\ p_calls' = [p_calls EXCEPT ![t] = @ + 1]
    /\ p_stack' = [p_stack EXCEPT
                     ![t] = <<[cls |-> c, pc |-> "check", instance |-> 0]>>]
    /\ UNCHANGED <<p_instances, p_lock, p_created, p_frame>>

\* Line 27.
NestedFirstCheck(t) ==
    /\ AtLine(t, "check")
    /\ p_stack' = [p_stack EXCEPT
                     ![t] = GoTo(@, IF FirstCheckMisses(p_instances[Top(@).cls])
                                    THEN "acquire" ELSE "return")]
    /\ UNCHANGED <<p_instances, p_lock, p_calls, p_created, p_frame>>

\* Line 28: with cls._lock, which blocks while the lock is held, by whatever
\* thread.
NestedAcquire(t) ==
    /\ AtLine(t, "acquire")
    /\ p_lock = 0
    /\ p_lock' = t
    /\ p_stack' = [p_stack EXCEPT ![t] = GoTo(@, "recheck")]
    /\ UNCHANGED <<p_instances, p_calls, p_created, p_frame>>

\* Line 29.
NestedSecondCheck(t) ==
    /\ AtLine(t, "recheck")
    /\ p_stack' = [p_stack EXCEPT
                     ![t] = GoTo(@, IF SecondCheckMisses(p_instances[Top(@).cls])
                                    THEN "new" ELSE "release")]
    /\ UNCHANGED <<p_instances, p_lock, p_calls, p_created, p_frame>>

\* Line 34: instance = super().__new__(cls).
NestedNewInstance(t) ==
    /\ AtLine(t, "new")
    /\ p_created' = p_created + 1
    /\ p_stack' = [p_stack EXCEPT
                     ![t] = [GoTo(@, "initialize")
                               EXCEPT ![Len(@)].instance = p_created + 1]]
    /\ UNCHANGED <<p_instances, p_lock, p_calls, p_frame>>

\* Lines 36-39: instance._initialize(*args, **kwargs).  The _initialize of
\* a class that constructs another calls that class, and line 40 follows
\* when the call has returned; any other _initialize returns.
NestedInitialize(t) ==
    /\ AtLine(t, "initialize")
    /\ LET inner == InitializeConstructs(Top(p_stack[t]).cls)
       IN  p_stack' = [p_stack EXCEPT
                         ![t] = IF IsNone(inner) THEN GoTo(@, "register")
                                ELSE Append(GoTo(@, "register"),
                                            [cls |-> Val(inner), pc |-> "check",
                                             instance |-> 0])]
    /\ UNCHANGED <<p_instances, p_lock, p_calls, p_created, p_frame>>

\* Line 40: cls._instances[cls] = instance.
NestedRegister(t) ==
    /\ AtLine(t, "register")
    /\ p_instances' = [p_instances EXCEPT
                         ![Top(p_stack[t]).cls] = Some(Top(p_stack[t]).instance)]
    /\ p_stack' = [p_stack EXCEPT ![t] = GoTo(@, "release")]
    /\ UNCHANGED <<p_lock, p_calls, p_created, p_frame>>

\* The with block ends and releases the lock.
NestedRelease(t) ==
    /\ AtLine(t, "release")
    /\ p_lock' = 0
    /\ p_stack' = [p_stack EXCEPT ![t] = GoTo(@, "return")]
    /\ UNCHANGED <<p_instances, p_calls, p_created, p_frame>>

\* Line 57: return cls._instances[cls]; the caller, if the call was made by
\* an _initialize, goes on.
NestedReturn(t) ==
    /\ AtLine(t, "return")
    /\ p_stack' = [p_stack EXCEPT ![t] = SubSeq(@, 1, Len(@) - 1)]
    /\ UNCHANGED <<p_instances, p_lock, p_calls, p_created, p_frame>>

----------------------------------------------------------------------------
(* The constructors of the clients: CloudStorageClient.__new__ and         *)
(* __init__ (storage/storage.py), run by several threads, and              *)
(* LoggingClient.__init__ under run_once (logging/logging.py,              *)
(* utils/decorators.py).  The call cls(...) runs cls.__new__ and then, on  *)
(* the object it returned, cls.__init__.  A thread constructing a          *)
(* CloudStorageClient is at "check" (21), "acquire" (22), "recheck" (23),  *)
(* "new" (28), "init31" and "super31" (31: lines 49 and 52-54 of           *)
(* __init__), "client32" (32), "except" (37), "raise", "release",          *)
(* "return" (46), or at "init" and "super" (__init__ after __new__: lines  *)
(* 49 and 52-54).                                                          *)

\* How a run of the Google client's __init__ can end.
ClientInitOutcomes == {"ok", "OSError", "Exception"}

NewObject == [initialized |-> FALSE, client_inits |-> 0]

\* Client.__init__ runs on object id and ends with outcome o; "mark" tells
\* whether the caller sets its flag on the object after a run that returned.
ClientInit(objs, id, o, mark) ==
    [objs EXCEPT ![id] = [initialized |-> IF o = "ok" /\ mark THEN TRUE
                                          ELSE @.initialized,
                          client_inits |-> @.client_inits + 1]]

\* Where a constructor goes after a call that ended with outcome o inside
\* the try block of __new__.
AfterInNew(o, next) ==
    CASE o = "ok" -> next
      [] o = "OSError" -> "except"
      [] OTHER -> "raise"

NoHist == [returned |-> {}, raised |-> {}]

ClientIdle ==
    /\ c_pc = <<>> /\ c_instance = None /\ c_lock = 0 /\ c_objs = <<>>
    /\ c_result = <<>> /\ c_calls = <<>> /\ c_hist = NoHist
    /\ l_objs = <<>> /\ l_hist = NoHist

ClientInitial ==
    /\ c_pc = [t \in Threads |-> "idle"]
    /\ c_instance = None
    /\ c_lock = 0
    /\ c_objs = <<>>
    /\ c_result = [t \in Threads |-> 0]
    /\ c_calls = [t \in Threads |-> 0]
    /\ c_hist = NoHist
    /\ l_objs = <<>>
    /\ l_hist = NoHist

logging_client_vars == <<l_objs, l_hist>>

c_frame ==
    <<old_vars, single_vars, logging_client_vars, transfer_vars, nest_vars>>

\* A thread calls CloudStorageClient(...).
StorageConstruct(t) ==
    /\ c_pc[t] = "idle"
    /\ c_calls[t] < MaxConstructs
    /\ c_calls' = [c_calls EXCEPT ![t] = @ + 1]
    /\ c_pc' = [c_pc EXCEPT ![t] = "check"]
    /\ UNCHANGED <<c_instance, c_lock, c_objs, c_result, c_hist, c_frame>>

\* Line 21: cls._instance is None, outside the lock.
StorageFirstCheck(t) ==
    /\ c_pc[t] = "check"
    /\ c_pc' = [c_pc EXCEPT ![t] = IF IsNone(c_instance) THEN "acquire"
                                   ELSE "return"]
    /\ UNCHANGED <<c_instance, c_lock, c_objs, c_result, c_calls, c_hist, c_frame>>

\* Line 22: with cls._lock.
StorageAcquire(t) ==
    /\ c_pc[t] = "acquire"
    /\ c_lock = 0
    /\ c_lock' = t
    /\ c_pc' = [c_pc EXCEPT ![t] = "recheck"]
    /\ UNCHANGED <<c_instance, c_objs, c_result, c_calls, c_hist, c_frame>>

\* Line 23: cls._instance is None, inside the lock.
StorageSecondCheck(t) ==
    /\ c_pc[t] = "recheck"
    /\ c_pc' = [c_pc EXCEPT ![t] = IF IsNone(c_instance) THEN "new"
                                   ELSE "release"]
    /\ UNCHANGED <<c_instance, c_lock, c_objs, c_result, c_calls, c_hist, c_frame>>

\* Line 28: cls._instance = super().__new__(cls).
StorageNew(t) ==
    /\ c_pc[t] = "new"
    /\ c_objs' = Append(c_objs, NewObject)
    /\ c_instance' = Some(Len(c_objs) + 1)
    /\ c_pc' = [c_pc EXCEPT ![t] = "init31"]
    /\ UNCHANGED <<c_lock, c_result, c_calls, c_hist, c_frame>>

\* Line 31, cls._instance.__init__(*args, **kwargs): line 49 of __init__.
StorageInitInNew(t) ==
    /\ c_pc[t] = "init31"
    /\ c_pc' = [c_pc EXCEPT ![t] = IF c_objs[Val(c_instance)].initialized
                                   THEN "client32" ELSE "super31"]
    /\ UNCHANGED <<c_instance, c_lock, c_objs, c_result, c_calls, c_hist, c_frame>>

\* Lines 52-57 of __init__, called from line 31: super().__init__ and, when
\* it returned, self.initialized = True; an exception is raised on.
StorageSuperInitInNew(t) ==
    /\ c_pc[t] = "super31"
    /\ \E o \in ClientInitOutcomes :
          /\ c_objs' = ClientInit(c_objs, Val(c_instance), o, TRUE)
          /\ c_pc' = [c_pc EXCEPT ![t] = AfterInNew(o, "client32")]
          /\ c_hist' = [c_hist EXCEPT !.raised = IF o = "Exception"
                                                 THEN @ \cup {o} ELSE @]
    /\ UNCHANGED <<c_instance, c_lock, c_result, c_calls, c_frame>>

\* Line 32: Client.__init__(cls._instance, *args, **kwargs).
StorageClientInit(t) ==
    /\ c_pc[t] = "client32"
    /\ \E o \in ClientInitOutcomes :
          /\ c_objs' = ClientInit(c_objs, Val(c_instance), o, FALSE)
          /\ c_pc' = [c_pc EXCEPT ![t] = AfterInNew(o, "release")]
          /\ c_hist' = [c_hist EXCEPT !.raised = IF o = "Exception"
                                                 THEN @ \cup {o} ELSE @]
    /\ UNCHANGED <<c_instance, c_lock, c_result, c_calls, c_frame>>

\* Lines 37-43: the OSError is logged and RuntimeError is raised from it.
StorageExcept(t) ==
    /\ c_pc[t] = "except"
    /\ c_hist' = [c_hist EXCEPT !.raised = @ \cup {"RuntimeError"}]
    /\ c_pc' = [c_pc EXCEPT ![t] = "raise"]
    /\ UNCHANGED <<c_instance, c_lock, c_objs, c_result, c_calls, c_frame>>

\* The exception leaves the with block, which releases the lock, and then
\* the constructor call.
StorageRaise(t) ==
    /\ c_pc[t] = "raise"
    /\ c_lock' = 0
    /\ c_pc' = [c_pc EXCEPT ![t] = "idle"]
    /\ UNCHANGED <<c_instance, c_objs, c_result, c_calls, c_hist, c_frame>>

\* The with block ends and releases the lock.
StorageRelease(t) ==
    /\ c_pc[t] = "release"
    /\ c_lock' = 0
    /\ c_pc' = [c_pc EXCEPT ![t] = "return"]
    /\ UNCHANGED <<c_instance, c_objs, c_result, c_calls, c_hist, c_frame>>

\* Line 46: return cls._instance.
StorageReturn(t) ==
    /\ c_pc[t] = "return"
    /\ c_result' = [c_result EXCEPT ![t] = Val(c_instance)]
    /\ c_pc' = [c_pc EXCEPT ![t] = "init"]
    /\ UNCHANGED <<c_instance, c_lock, c_objs, c_calls, c_hist, c_frame>>

\* __init__ on the object __new__ returned: line 49.  When the object has
\* the attribute, the constructor call returns it.
StorageInit(t) ==
    /\ c_pc[t] = "init"
    /\ IF c_objs[c_result[t]].initialized
       THEN /\ c_hist' = [c_hist EXCEPT !.returned = @ \cup {c_result[t]}]
            /\ c_pc' = [c_pc EXCEPT ![t] = "idle"]
       ELSE /\ c_pc' = [c_pc EXCEPT ![t] = "super"]
            /\ UNCHANGED c_hist
    /\ UNCHANGED <<c_instance, c_lock, c_objs, c_result, c_calls, c_frame>>

\* Lines 52-57 of __init__ after __new__: the constructor call returns the
\* object or raises what super().__init__ raised.
StorageSuperInit(t) ==
    /\ c_pc[t] = "super"
    /\ \E o \in ClientInitOutcomes :
          /\ c_objs' = ClientInit(c_objs, c_result[t], o, TRUE)
          /\ c_hist' = IF o = "ok"
                       THEN [c_hist EXCEPT !.returned = @ \cup {c_result[t]}]
                       ELSE [c_hist EXCEPT !.raised = @ \cup {o}]
    /\ c_pc' = [c_pc EXCEPT ![t] = "idle"]
    /\ UNCHANGED <<c_instance, c_lock, c_result, c_calls, c_frame>>

\* LoggingClient(...): the class defines no __new__, so a new object is
\* created; its __init__ runs under run_once, whose flag _initialized is an
\* attribute of that object (decorators.py 51-54).
LoggingConstruct ==
    /\ Len(l_objs) < MaxConstructs
    /\ \E o \in ClientInitOutcomes :
          LET id == Len(l_objs) + 1
              objs == Append(l_objs, NewObject)
          IN  /\ l_objs' = IF objs[id].initialized THEN objs
                           ELSE ClientInit(objs, id, o, TRUE)
              /\ l_hist' = IF o = "ok"
                           THEN [l_hist EXCEPT !.returned = @ \cup {id}]
                           ELSE [l_hist EXCEPT !.raised = @ \cup {o}]
    /\ UNCHANGED <<c_pc, c_instance, c_lock, c_objs, c_result, c_calls, c_hist,
                   old_vars, single_vars, transfer_vars, nest_vars>>

----------------------------------------------------------------------------
(* DataTransferClient.get_transfer_configs (datatransfer/datatransfer.py). *)
(* A transfer config of the backend is a record [name, owner_email,        *)
(* query]; an ExtendedTransferConfig is [base_config, additional_configs], *)
(* additional_configs being None for the empty dictionary.  An e-mail      *)
(* address and a table id are sequences of tokens.                         *)

MaxConfigs == 2      \* transfer configs the backend lists for the parent

TransferConfigs ==
    { [name |-> "config1", owner_email |-> <<"p", "@example.com">>, query |-> "q1"],
      [name |-> "config2", owner_email |-> <<"P", "@example.com">>, query |-> "q2"],
      [name |-> "config3", owner_email |-> <<"p", "@example.com">>, query |-> "q1"] }

\* The lists of the backend: no config is listed twice.
BackendLists ==
    { l \in SeqsUpTo(TransferConfigs, MaxConfigs) :
        \A i, j \in 1..Len(l) : l[i] = l[j] => i = j }

\* Line 69: f"projects/{self.project_id}/locations/{self.location}".
Parent(project_id, location) ==
    <<"projects", "/", project_id, "/", "locations", "/", location>>

Parents ==
    { Parent(p, l) : p \in {"my-project", "bad_project"}, l \in {"US", ""} }

\* re.match(MATCHING_RULE_PROJECT_LOCATION, s): [a-zA-Z0-9-]+ has to reach
\* the next "/", [a-zA-Z-]+ has to match a non-empty prefix of the location.
ProjectIdMatches(tok) == tok \in {"my-project"}
LocationMatches(tok) == tok \in {"US"}
MatchProjectLocation(s) ==
    /\ Len(s) >= 7
    /\ <<s[1], s[2], s[4], s[5], s[6]>> = <<"projects", "/", "/", "locations", "/">>
    /\ ProjectIdMatches(s[3])
    /\ LocationMatches(s[7])

\* The request argument: None, or a ListTransferConfigsRequest (a dict is
\* converted to one, lines 113-114) with its parent.
Requests ==
    {None, Some([parent |-> <<>>]), Some([parent |-> Parent("my-project", "US")])}

\* ExtendedTransferConfig(transfer_config_original), line 141.
ExtendedTransferConfig(original) ==
    [base_config |-> original, additional_configs |-> None]

\* Lines 142-160: the owner and the simulated query of one config.
WithAdditionalConfigs(tc) ==
    [tc EXCEPT !.additional_configs =
        Some([owner_email |-> tc.base_config.owner_email,
              total_estimated_processed_bytes |-> tc.base_config.query,
              referenced_tables |-> tc.base_config.query])]

\* The loop of lines 140-162 over every listed config.
RECURSIVE ExtendAll(_, _)
ExtendAll(listed, additional_configs) ==
    IF listed = <<>> THEN <<>>
    ELSE LET tc == ExtendedTransferConfig(Head(listed))
         IN  <<IF additional_configs THEN WithAdditionalConfigs(tc) ELSE tc>>
             \o ExtendAll(Tail(listed), additional_configs)

\* The loop of lines 140-162: its body ends with break (line 162), so it
\* runs for the first listed config only.
ExtendListed(listed, additional_configs) ==
    IF listed = <<>> THEN <<>>
    ELSE ExtendAll(<<Head(listed)>>, additional_configs)

\* get_transfer_configs(request, additional_configs=...).  fail tells whether
\* get_transfer_config or simulate_query raises for the config at hand.
GetTransferConfigs(request, additional_configs, fail, parent, cachev, backend) ==
    IF (IsNone(request) \/ Val(request).parent = <<>>) /\ parent = <<>>
    THEN [error |-> "Request or parent parameters must be provided!",
          lists |-> 0, cache |-> cachev, returned |-> <<>>]
    ELSE IF ~MatchProjectLocation(parent)
    THEN [error |-> "Parent should be in the format projects/{}/locations/{}",
          lists |-> 0, cache |-> cachev, returned |-> <<>>]
    ELSE IF additional_configs /\ fail /\ backend # <<>>
    THEN [error |-> "backend", lists |-> 1, cache |-> <<>>, returned |-> <<>>]
    ELSE LET configs == ExtendListed(backend, additional_configs)
         IN  [error |-> "none", lists |-> 1, cache |-> configs,
              returned |-> configs]

\* The test of lines 188-191 and 221-224 with the emptiness test alone.
NeedsRefreshWhenEmpty(cachev) == cachev = <<>>

\* Lines 188-191 and 221-224: "if not cached, run it".
NeedsRefresh(cachev) ==
    \/ Len(cachev) = 0
    \/ IsNone(cachev[1].additional_configs)

\* String.extract_tables_from_query(query) (utils/string.py 85-116), for
\* the queries of the model: the ids project.dataset.table in the query.
ExtractTablesFromQuery(query) ==
    CASE query = "q1" -> {<<"p", ".", "d", ".", "T">>}
      [] query = "q2" -> {<<"p", ".", "d", ".", "t2">>, <<"p", ".", "d2", ".", "t">>}
      [] OTHER -> {}

\* t.split(".")[-1]
RECURSIVE LastSegment(_)
LastSegment(t) ==
    IF "." \notin Range(t) THEN t
    ELSE LastSegment(Tail(t))

\* The filter of lines 196-202.
OwnedBy(x, owner_email) ==
    /\ ~IsNone(x.additional_configs)
    /\ Val(x.additional_configs).owner_email = Lower(owner_email)

\* The filter of lines 225-239.
ReadsTable(x, table_id) ==
    Lower(table_id) \in { LastSegment(Lower(t)) :
                            t \in ExtractTablesFromQuery(x.base_config.query) }

\* get_transfer_configs_by_owner_email(arg) and
\* get_transfer_configs_by_table_id(arg).  pulls counts the calls of
\* get_transfer_configs.
TransferLookup(op, arg, fail, parent, cachev, backend) ==
    LET r == IF NeedsRefresh(cachev)
             THEN GetTransferConfigs(None, TRUE, fail, parent, cachev, backend)
             ELSE [error |-> "none", lists |-> 0, cache |-> cachev,
                   returned |-> cachev]
        Keep(x) == IF op = "by_owner_email" THEN OwnedBy(x, arg)
                   ELSE ReadsTable(x, arg)
    IN  [error |-> r.error, lists |-> r.lists, cache |-> r.cache,
         pulls |-> IF NeedsRefresh(cachev) THEN 1 ELSE 0,
         returned |-> IF r.error = "none" THEN SelectSeq(r.cache, Keep) ELSE <<>>]

OwnerEmails == {<<"p", "@example.com">>, <<"P", "@example.com">>, <<"d", "@example.com">>}
TableNames == {<<"t">>, <<"T">>, <<"t2">>, <<"p", ".", "d", ".", "t">>}

NoTransferCall ==
    [op |-> "none", error |-> "none", lists |-> 0, pulls |-> 0, listed |-> <<>>,
     returned |-> <<>>, pre_cache |-> <<>>]

TransferIdle ==
    /\ t_parent = <<>> /\ t_backend = <<>> /\ t_cache = <<>>
    /\ t_out = NoTransferCall

\* __init__, lines 67-69.
TransferInit ==
    /\ t_parent \in Parents
    /\ t_backend \in BackendLists
    /\ t_cache = <<>>
    /\ t_out = NoTransferCall

t_frame == <<old_vars, single_vars, client_vars, nest_vars>>

\* A call of get_transfer_configs.
GetTransferConfigsCall ==
    /\ \E request \in Requests, additional_configs \in BOOLEAN, fail \in BOOLEAN :
          LET r == GetTransferConfigs(request, additional_configs, fail,
                                      t_parent, t_cache, t_backend)
          IN  /\ t_cache' = r.cache
              /\ t_out' = [op |-> "get_transfer_configs", error |-> r.error,
                           lists |-> r.lists, pulls |-> 1,
                           listed |-> IF r.lists = 1 THEN t_backend ELSE <<>>,
                           returned |-> r.returned, pre_cache |-> t_cache]
    /\ UNCHANGED <<t_parent, t_backend, t_frame>>

\* A call of get_transfer_configs_by_owner_email or
\* get_transfer_configs_by_table_id.
TransferLookupCall(op, args) ==
    /\ \E arg \in args, fail \in BOOLEAN :
          LET r == TransferLookup(op, arg, fail, t_parent, t_cache, t_backend)
          IN  /\ t_cache' = r.cache
              /\ t_out' = [op |-> op, error |-> r.error, lists |-> r.lists,
                           pulls |-> r.pulls,
                           listed |-> IF r.lists = 1 THEN t_backend ELSE <<>>,
                           returned |-> r.returned, pre_cache |-> t_cache]
    /\ UNCHANGED <<t_parent, t_backend, t_frame>>

GetTransferConfigsByOwnerEmail == TransferLookupCall("by_owner_email", OwnerEmails)
GetTransferConfigsByTableId == TransferLookupCall("by_table_id", TableNames)

\* Transfer configs are created and deleted in the project.
BackendChanges ==
    /\ t_backend' \in BackendLists \ {t_backend}
    /\ UNCHANGED <<t_parent, t_cache, t_out, t_frame>>

MoreIdle == SingleIdle /\ ClientIdle /\ TransferIdle /\ NestIdle
ExtIdle == FlatIdle /\ IntervalIdle /\ MoreIdle

----------------------------------------------------------------------------
(* The specifications. *)

\* LoggingClient: the pulls, the cache and the lookups.
Init == LogInit /\ NormIdle /\ ChecksIdle /\ ExtIdle
Next ==
    \/ GetAllDataAccessLogs
    \/ GetAllDataAccessLogsByTableId
    \/ ExportLogsToStorage
    \/ Tick
Spec == Init /\ [][Next]_vars

\* The normalisation of one entry.
InitNormalize == LogIdle /\ NormInit /\ ChecksIdle /\ ExtIdle
NextNormalize == NormalizeOne
SpecNormalize == InitNormalize /\ [][NextNormalize]_vars

\* run_data_checks.
InitChecks == LogIdle /\ NormIdle /\ ChecksInit /\ ExtIdle
NextChecks == ReadRow \/ InvokeCheck \/ EndOfFile
SpecChecks == InitChecks /\ [][NextChecks]_vars

\* _flatten_dictionaries.
InitFlatten ==
    LogIdle /\ NormIdle /\ ChecksIdle /\ FlatInit /\ IntervalIdle /\ MoreIdle
NextFlatten == FlattenDictionariesCall
SpecFlatten == InitFlatten /\ [][NextFlatten]_vars

\* _calculate_interval.
InitInterval ==
    LogIdle /\ NormIdle /\ ChecksIdle /\ FlatIdle /\ IntervalInit /\ MoreIdle
NextInterval == CalculateIntervalCall \/ GetAllDataAccessLogsOnNewClient
SpecInterval == InitInterval /\ [][NextInterval]_vars

OldIdle == LogIdle /\ NormIdle /\ ChecksIdle /\ FlatIdle /\ IntervalIdle

\* SingletonBase.__new__ under concurrent constructor calls.
InitSingleton ==
    OldIdle /\ SingleInit /\ ClientIdle /\ TransferIdle /\ NestIdle
NextSingleton ==
    \E t \in Threads :
        \/ Construct(t) \/ FirstCheck(t) \/ Acquire(t) \/ SecondCheck(t)
        \/ NewInstance(t) \/ Initialize(t) \/ Register(t) \/ ExceptOSError(t)
        \/ Raise(t) \/ Release(t) \/ Return(t)
SpecSingleton == InitSingleton /\ [][NextSingleton]_vars

\* The constructors of CloudStorageClient and LoggingClient.
InitClients ==
    OldIdle /\ SingleIdle /\ ClientInitial /\ TransferIdle /\ NestIdle
NextClients ==
    \/ LoggingConstruct
    \/ \E t \in Threads :
          \/ StorageConstruct(t) \/ StorageFirstCheck(t) \/ StorageAcquire(t)
          \/ StorageSecondCheck(t) \/ StorageNew(t) \/ StorageInitInNew(t)
          \/ StorageSuperInitInNew(t) \/ StorageClientInit(t)
          \/ StorageExcept(t) \/ StorageRaise(t) \/ StorageRelease(t)
          \/ StorageReturn(t) \/ StorageInit(t) \/ StorageSuperInit(t)
SpecClients == InitClients /\ [][NextClients]_vars

\* DataTransferClient.get_transfer_configs.
InitTransfer ==
    OldIdle /\ SingleIdle /\ ClientIdle /\ TransferInit /\ NestIdle
NextTransfer ==
    \/ GetTransferConfigsCall
    \/ GetTransferConfigsByOwnerEmail
    \/ GetTransferConfigsByTableId
    \/ BackendChanges
SpecTransfer == InitTransfer /\ [][NextTransfer]_vars

\* SingletonBase.__new__ for a subclass whose _initialize constructs another.
InitNested == OldIdle /\ SingleIdle /\ ClientIdle /\ TransferIdle /\ NestInit
NextNested ==
    \E t \in Threads :
        \/ \E c \in Classes : NestedConstruct(t, c)
        \/ NestedFirstCheck(t) \/ NestedAcquire(t) \/ NestedSecondCheck(t)
        \/ NestedNewInstance(t) \/ NestedInitialize(t) \/ NestedRegister(t)
        \/ NestedRelease(t) \/ NestedReturn(t)
SpecNested == InitNested /\ [][NextNested]_vars

----------------------------------------------------------------------------
(* The claims about LoggingClient. *)

\* C1: when a pull replaces the cache, data_access_logs afterwards holds
\* exactly the records normalized from the entries of that pull: no record
\* of an earlier pull remains and no record is duplicated.
C1_LogsAreThoseOfTheLastPull ==
    (last.lists = 1 /\ last.error = "none")
        => data_access_logs = NormalizeEntries(last.pulled)

\* The requested interval of the last lookup lies inside the window that was
\* cached when the lookup was made.
InsideCachedWindow ==
    /\ last.pre_cache.cached
    /\ Val(last.start) >= Val(last.pre_cache.start_time)
    /\ Val(last.end) <= Val(last.pre_cache.end_time)

\* A lookup that got past the validation of its arguments.
LookupAccepted == last.op = "by_table_id" /\ ~IsNone(last.start)

C4_NoRecordWithoutTables ==
    /\ \A i \in 1..Len(data_access_logs) :
          data_access_logs[i].referenced_tables # {}
    /\ \A i \in 1..Len(last.returned) :
          last.returned[i].referenced_tables # {}

\* A pull delivered an entry without tables beside entries with tables.
C4_EntryDropped ==
    /\ last.error = "none" /\ last.lists = 1
    /\ \E i \in 1..Len(last.pulled) :
          ReferencedTables(last.pulled[i].payload) = {}
    /\ data_access_logs # <<>>

\* C5: a lookup with a table id that does not have exactly two "." raises
\* the format error and does not call the backend.
C5_BadTableIdIsAFormatError ==
    (last.op = "by_table_id" /\ Count(Val(last.table), ".") # 2)
        => /\ last.error =
                "The first parameter must be in the format 'project.dataset.table'."
           /\ last.lists = 0

----------------------------------------------------------------------------
(* The claims about the normalisation of one entry. *)

\* The rules of the classification in their order, each with its label.
OriginRules(p) ==
    << [holds |-> p.callerSuppliedUserAgent
                    = Some(<<"BigQuery Data Transfer Service">>),
        label |-> "Datatransfer"],
       [holds |-> p.requestor = Some("looker_studio"),
        label |-> "Looker Studio"],
       [holds |-> /\ ~IsNone(p.callerSuppliedUserAgent)
                  /\ Val(p.callerSuppliedUserAgent) # <<>>
                  /\ Val(p.callerSuppliedUserAgent)[1]
                        = "MicrosoftODBCDriverforGoogleBigQuery",
        label |-> "Power BI"],
       [holds |-> p.queryPriority = Some("QUERY_INTERACTIVE"),
        label |-> "Query / API"] >>

FirstMatch(p) ==
    LET rules == OriginRules(p)
        matching == {i \in 1..Len(rules) : rules[i].holds}
    IN  IF matching = {} THEN "Other"
        ELSE rules[CHOOSE i \in matching : \A j \in matching : i <= j].label

\* C3: the origin assigned to an entry is the label of the first rule, in
\* the order Datatransfer, Looker Studio, Power BI, Query/API, that holds of
\* its payload, and Other when none holds; the record kept carries it.
C3_FirstMatchWins ==
    n_out.done =>
        /\ n_out.origin = FirstMatch(n_entry.payload)
        /\ \A i \in 1..Len(n_out.records) :
              n_out.records[i].request_source_origin = n_out.origin

\* A payload of which the Looker Studio, Power BI and Query/API rules hold.
C3_SeveralRulesMatch ==
    /\ n_out.done
    /\ n_entry.payload.requestor = Some("looker_studio")
    /\ ~IsNone(n_entry.payload.callerSuppliedUserAgent)
    /\ StartsWith(Val(n_entry.payload.callerSuppliedUserAgent), UA_POWER_BI_PREFIX)
    /\ n_entry.payload.queryPriority = Some("QUERY_INTERACTIVE")
    /\ n_out.origin = "Looker Studio"
    /\ n_out.records # <<>>

\* The table id p.d.t of a resource path projects/p/datasets/d/tables/t.
IsTablePath(s) ==
    /\ Len(s) >= 11
    /\ <<s[1], s[2], s[4], s[5], s[6], s[8], s[9], s[10]>>
          = <<"projects", "/", "/", "datasets", "/", "/", "tables", "/">>
    /\ "/" \notin {s[3], s[7], s[11]}

GrantedTableIds(p) ==
    { <<Val(it.resource)[3], ".", Val(it.resource)[7], ".", Val(it.resource)[11]>> :
        it \in { x \in Range(p.authorizationInfo) :
                    /\ x.granted = Some("True")
                    /\ ~IsNone(x.resource)
                    /\ IsTablePath(Val(x.resource)) } }

JobStatisticsIds(p) ==
    { <<Str(x.projectId), ".", Str(x.datasetId), ".", Str(x.tableId)>> :
        x \in Range(p.referencedTables) \cup Range(p.referencedViews) }

C15_ResourcesWithoutGrantedFlag ==
    LET p == n_entry.payload
    IN  ( /\ n_out.done
          /\ IsNone(p.callerSuppliedUserAgent) /\ IsNone(p.requestor)
          /\ IsNone(p.queryPriority)
          /\ p.authorizationInfo # <<>>
          /\ \A x \in Range(p.authorizationInfo) :
                /\ IsNone(x.granted)
                /\ ~IsNone(x.resource) /\ IsTablePath(Val(x.resource)) )
        => /\ Len(n_out.records) = 1
           /\ n_out.records[1].referenced_tables
                 = { <<Val(x.resource)[3], ".", Val(x.resource)[7], ".",
                       Val(x.resource)[11]>> : x \in Range(p.authorizationInfo) }

----------------------------------------------------------------------------
(* The claims about run_data_checks and the built-in checks. *)

CaughtByRunner == {"ValueError", "TypeError"}

\* C6: the checks are invoked row by row with a 1-based row index and, for
\* each row, in the order of data_checks; no check is invoked after the
\* first invocation that raises ValueError or TypeError, and the run then
\* returns False; it returns True only if every check was invoked on every
\* row and none raised.
C6_ChecksRunInOrderUntilFirstFailure ==
    LET n == Len(data_checks)
        k == Len(invoked)
    IN  outcome # "idle" =>
        /\ \A j \in 1..k :
              /\ invoked[j].idx = ((j - 1) \div n) + 1
              /\ invoked[j].position = ((j - 1) % n) + 1
        /\ \A j \in 1..(k - 1) : invoked[j].exc = "none"
        /\ (k > 0 /\ invoked[k].exc \in CaughtByRunner) => outcome = "False"
        /\ outcome = "False" => (k > 0 /\ invoked[k].exc \in CaughtByRunner)
        /\ outcome = "True" =>
              /\ k = Len(rows) * n
              /\ \A j \in 1..k : invoked[j].exc = "none"

\* A run of two checks that failed on the first check of the second row.
C6_StoppedInSecondRow ==
    /\ outcome = "False"
    /\ Len(data_checks) = 2
    /\ Len(invoked) = 3
    /\ invoked[3].exc = "TypeError"

\* C7: no exception a built-in check raises while it examines a row escapes
\* run_data_checks.
C7_NoExceptionEscapes == outcome # "raised"

NoRepeatedName(names) ==
    \A i, j \in 1..Len(names) : names[i] = names[j] => i = j

\* C8: under check_columns a row fails exactly when its number of values
\* differs from the number of columns of the header (stated for a header
\* without repeated names).
C8_ColumnCountDecides ==
    NoRepeatedName(header) =>
        \A j \in 1..Len(invoked) :
            data_checks[invoked[j].position].name = "check_columns" =>
                ( invoked[j].exc = "ValueError"
                    <=> Len(rows[invoked[j].idx]) # Len(header) )

\* C9: a check that names a column the header does not have raises the
\* unknown-column ValueError, before it reads a value of the row or adds to
\* an accumulator (stated for checks whose other arguments are valid).
C9_UnknownColumnComesFirst ==
    \A j \in 1..Len(invoked) :
        LET check == data_checks[invoked[j].position]
            named == ColumnsToTest(check, header)
        IN  ( /\ check.name # "check_columns"
              /\ ConfigurationError(check) = "none"
              /\ \E i \in 1..Len(named) : named[i] \notin Range(header) )
            => /\ invoked[j].exc = "ValueError"
               /\ invoked[j].kind = "unknown column"
               /\ invoked[j].read = {}
               /\ invoked[j].after = invoked[j].before

\* The value row r of the file has in a column.
ValueAt(r, column_name) == RowGet(DictRow(header, rows[r]), column_name)

\* C10: check_unique, alone in the run and naming columns of the header,
\* fails a row exactly when its value in a named column equals the value of
\* an earlier row in that column; after a row that passes, the accumulator
\* of each named column is the set of the values of the rows so far.
C10_FailsExactlyOnARepeatedValue ==
    ( /\ Len(data_checks) = 1
      /\ data_checks[1].name = "check_unique"
      /\ Range(ColumnsToTest(data_checks[1], header)) \subseteq Range(header) )
    => \A j \in 1..Len(invoked) :
          LET named == Range(ColumnsToTest(data_checks[1], header))
              repeated == \E c \in named : \E r \in 1..(j - 1) :
                              ValueAt(r, c) = ValueAt(j, c)
          IN  /\ invoked[j].exc = "ValueError" <=> repeated
              /\ invoked[j].exc = "none" =>
                    \A c \in named :
                        invoked[j].after[c] = {ValueAt(r, c) : r \in 1..j}

----------------------------------------------------------------------------
(* The claims about _flatten_dictionaries. *)

\* The flattened form of a record: nested keys joined by ".".
Flat(record) == flatten_dictionary(<<>>, record, <<>>)

HasList(F) == \E j \in 1..Len(F) : F[j].tag = "list"

\* Number of elements of the list-valued fields of F before position j.
RECURSIVE ElementsBefore(_, _)
ElementsBefore(F, j) ==
    IF j <= 1 THEN 0
    ELSE ElementsBefore(F, j - 1)
         + (IF F[j - 1].tag = "list" THEN Len(F[j - 1].v) ELSE 0)

\* Number of rows the claim gives a record.
RowCount(record) ==
    LET F == Flat(record)
    IN  IF HasList(F) THEN ElementsBefore(F, Len(F) + 1) ELSE 1

RECURSIVE RowsBefore(_, _)
RowsBefore(logs, i) ==
    IF i <= 1 THEN 0 ELSE RowsBefore(logs, i - 1) + RowCount(logs[i - 1])

\* Two dictionaries with the same keys and the same value under each key.
SameDict(a, b) ==
    /\ Len(a) = Len(b)
    /\ \A i \in 1..Len(a) : DictHas(b, a[i].k) /\ DictGet(b, a[i].k) = a[i]

\* C11: a record without a list-valued field gives one row, its flattened
\* form; a record with list-valued fields gives one row per element of each
\* of them (M + N rows for two lists of M and N elements), in the order of
\* the fields and of the elements, each row carrying that one element under
\* the field's key and every other field unchanged.
C11_OneRowPerListElement ==
    ~IsNone(f_out) =>
        LET out == Val(f_out)
        IN  /\ Len(out) = RowsBefore(f_logs, Len(f_logs) + 1)
            /\ \A i \in 1..Len(f_logs) :
                  LET F == Flat(f_logs[i])
                      base == RowsBefore(f_logs, i)
                  IN  IF ~HasList(F) THEN SameDict(out[base + 1], F)
                      ELSE \A j \in 1..Len(F) : F[j].tag = "list" =>
                             \A e \in 1..Len(F[j].v) :
                                SameDict(out[base + ElementsBefore(F, j) + e],
                                         [x \in 1..Len(F) |->
                                            IF x = j
                                            THEN ScalarItem(F[j].k, F[j].v[e])
                                            ELSE F[x]])

\* A record with a list of two elements and a list of one element was
\* flattened into three rows.
C11_TwoListFields ==
    /\ ~IsNone(f_out)
    /\ Len(f_logs) = 1
    /\ DictHas(f_logs[1], <<"key1">>) /\ DictHas(f_logs[1], <<"key3">>)
    /\ DictGet(f_logs[1], <<"key1">>).tag = "list"
    /\ Len(DictGet(f_logs[1], <<"key1">>).v) = 2
    /\ DictGet(f_logs[1], <<"key3">>).tag = "list"
    /\ Len(DictGet(f_logs[1], <<"key3">>).v) = 1
    /\ Len(Val(f_out)) = 3

----------------------------------------------------------------------------
(* The claims about _calculate_interval. *)

C13_MixedArgumentsAreRejected ==
    ( /\ ~IsNone(i_out)
      /\ Val(i_out).op = "get_all_data_access_logs"
      /\ \/ (~IsNone(i_call.days) /\ ~IsNone(i_call.start_time))
         \/ (i_call.extra /\ ~IsNone(i_call.start_time)
               /\ ~IsNone(i_call.end_time)) )
    => (Val(i_out).error # "none" /\ Val(i_out).lists = 0)

----------------------------------------------------------------------------
(* The claims about the lookup by table and the failures of the backend. *)

HasTable(x, table_full_path) ==
    \E tb \in x.referenced_tables : Lower(tb) = Lower(table_full_path)

RECURSIVE RecordsWith(_, _)
RecordsWith(logs, table_full_path) ==
    IF logs = <<>> THEN <<>>
    ELSE (IF HasTable(Head(logs), table_full_path) THEN <<Head(logs)>> ELSE <<>>)
         \o RecordsWith(Tail(logs), table_full_path)

\* C16: a lookup by table that returns hands back exactly the records of
\* data_access_logs with at least one referenced table equal to
\* table_full_path, both lower-cased: each such record once, in order, and
\* no other record.
C16_ExactlyTheRecordsOfTheTable ==
    (last.op = "by_table_id" /\ last.error = "none")
        => last.returned = RecordsWith(data_access_logs, Val(last.table))

\* C20: a pull that fails in the backend logs 'Error getting logs: %s' once
\* with the exception, calls list_entries once and raises that exception.
C20_BackendFailureIsLoggedOnce ==
    last.error = "backend"
        => /\ last.logged = <<ErrorGettingLogs("backend")>>
           /\ last.lists = 1

----------------------------------------------------------------------------
(* The claims about SingletonBase. *)

\* Every constructor call that returned handed back the registered instance,
\* and at most one instance was ever registered.
OneRegisteredInstance ==
    /\ Len(s_hist.registered) <= 1
    /\ s_hist.returned \subseteq Range(s_hist.registered)

\* C17, as stated: under every interleaving of the constructor calls
\* _initialize runs at most once, at most one instance is ever registered and
\* every constructor call that returns hands back that instance.
C17_InitializeRunsAtMostOnce ==
    /\ s_hist.runs <= 1
    /\ OneRegisteredInstance

\* C17, amended: _initialize completes at most once and is never run once an
\* instance is registered (it runs again only after a run that raised); at
\* most one instance is ever registered and every constructor call that
\* returns hands back that instance.
C17_InitializeCompletesAtMostOnce ==
    /\ s_hist.completed <= 1
    /\ \A t \in DOMAIN s_pc :
          s_pc[t] \in {"new", "initialize", "except", "raise"} => IsNone(s_instances)
    /\ OneRegisteredInstance

\* A first run of _initialize raised and a second one completed, while a
\* thread that had passed the first check waited for the lock: it found the
\* instance registered at the second check and created none itself.
C17_SecondCheckFoundTheInstance ==
    /\ s_hist.runs = 2 /\ s_hist.completed = 1
    /\ ~IsNone(s_instances)
    /\ \E t \in DOMAIN s_pc :
          s_pc[t] = "release" /\ s_calls[t] = 1 /\ s_instance[t] = 0

RECURSIVE SumOf(_)
SumOf(ns) == IF ns = <<>> THEN 0 ELSE Head(ns) + SumOf(Tail(ns))

ClientInits(objs) == SumOf([i \in 1..Len(objs) |-> objs[i].client_inits])

\* C18: however often LoggingClient, and likewise CloudStorageClient, is
\* constructed, every construction returns the same instance and the Google
\* client initialiser has run exactly once in total (stated for the
\* behaviours in which no initialiser raised).
C18_OneInstanceInitialisedOnce ==
    /\ (l_hist.raised = {} /\ l_hist.returned # {})
          => (Cardinality(l_hist.returned) = 1 /\ ClientInits(l_objs) = 1)
    /\ (c_hist.raised = {} /\ c_hist.returned # {})
          => (Cardinality(c_hist.returned) = 1 /\ ClientInits(c_objs) = 1)

----------------------------------------------------------------------------
(* The claims about DataTransferClient. *)

\* C19: a call of get_transfer_configs that returns hands back, and leaves
\* in cached_transfer_configs_list, one ExtendedTransferConfig for every
\* transfer config the backend listed, in the backend's order, whatever the
\* cache held before.
C19_OneForEveryListedConfig ==
    (t_out.op = "get_transfer_configs" /\ t_out.error = "none")
        => /\ Len(t_out.returned) = Len(t_out.listed)
           /\ \A i \in 1..Len(t_out.listed) :
                 i <= Len(t_out.returned)
                    => t_out.returned[i].base_config = t_out.listed[i]
           /\ t_cache = t_out.returned

----------------------------------------------------------------------------
(* The claims about the checks of single values. *)

\* A value is empty: the empty string, or None (a column the line has no
\* value for).
IsEmptyValue(value) == IsNone(value) \/ value = Some(<<>>)

\* The non-empty value v satisfies the check.
ValueIsValid(check, v) ==
    CASE check.name = "check_string_pattern" -> ReMatch(check.regex_pattern, v)
      [] check.name = "check_date_format" -> Strptime(v, check.date_format)
      [] check.name = "check_datatype" ->
            Converts(Val(check.expected_datatype), v)

\* C21: check_string_pattern, check_date_format and check_datatype, called
\* with valid arguments and columns of the header, let a row pass exactly
\* when each named column holds an empty value or a value that matches the
\* pattern, parses under the date format or converts to the expected type.
C21_EmptyValuesPass ==
    \A j \in 1..Len(invoked) :
        LET check == data_checks[invoked[j].position]
            named == Range(ColumnsToTest(check, header))
        IN  ( /\ check.name \in {"check_string_pattern", "check_date_format",
                                 "check_datatype"}
              /\ ConfigurationError(check) = "none"
              /\ named \subseteq Range(header) )
            => ( invoked[j].exc = "none"
                   <=> \A c \in named :
                          \/ IsEmptyValue(ValueAt(invoked[j].idx, c))
                          \/ ValueIsValid(check, Val(ValueAt(invoked[j].idx, c))) )

\* The candidate equals the row value coerced to the candidate's type.
EqualsCoerced(item, value) ==
    IF item.type = "int"
    THEN /\ ~IsNone(value)
         /\ ParseNumber(Val(value)).ok
         /\ ParseNumber(Val(value)).n = NumberOf(item.v)
    ELSE item.v = (IF IsNone(value) THEN <<"N", "o", "n", "e">> ELSE Val(value))

\* C22: check_in_set raises ValueError when valid_values_set is missing or
\* empty; otherwise, called with columns of the header, it lets a row pass
\* exactly when every named column holds a value that some candidate equals
\* once the value is coerced to that candidate's type, in whatever order the
\* candidates are listed, and raises ValueError when it does not pass.
C22_SomeCandidateEqualsTheValue ==
    \A j \in 1..Len(invoked) :
        LET check == data_checks[invoked[j].position]
            named == Range(ColumnsToTest(check, header))
        IN  check.name = "check_in_set" =>
            /\ invoked[j].exc \in {"none", "ValueError"}
            /\ ( IsNone(check.valid_values_set)
                 \/ Val(check.valid_values_set) = <<>> )
                  => invoked[j].exc = "ValueError"
            /\ ( ~IsNone(check.valid_values_set) /\ named \subseteq Range(header) )
                  => ( invoked[j].exc = "none"
                         <=> \A c \in named :
                                \E item \in Range(Val(check.valid_values_set)) :
                                    EqualsCoerced(item, ValueAt(invoked[j].idx, c)) )

TransferLookups == {"by_owner_email", "by_table_id"}

\* C23: a lookup by owner or by table calls get_transfer_configs exactly
\* when the cache it finds is empty or its first entry has no additional
\* configs; otherwise it makes no backend call, raises nothing and leaves
\* the cache as it was.
C23_LookupsAnswerFromTheCache ==
    t_out.op \in TransferLookups =>
        LET stale == \/ t_out.pre_cache = <<>>
                     \/ t_out.pre_cache[1].additional_configs = <<>>
        IN  /\ t_out.pulls = (IF stale THEN 1 ELSE 0)
            /\ ~stale => /\ t_out.lists = 0
                         /\ t_out.error = "none"
                         /\ t_cache = t_out.pre_cache

\* A lookup found the cache filled, with additional configs, and answered
\* from it although the backend lists something else by now.
C23_ServedFromTheFilledCache ==
    /\ t_out.op \in TransferLookups
    /\ t_out.pre_cache # <<>>
    /\ t_out.pulls = 0
    /\ t_out.returned # <<>>
    /\ t_backend = <<>>

----------------------------------------------------------------------------
(* The claims about the export, the requested interval and failed pulls. *)

\* C24: export_logs_to_storage called before any get_all_data_access_logs
\* has returned raises ValueError and uploads nothing; whenever it uploads,
\* the cache flag is set.
C24_NoUploadBeforeAPull ==
    last.op = "export" =>
        /\ ~succeeded => (last.error # "none" /\ IsNone(last.uploaded))
        /\ ~IsNone(last.uploaded) => (cache.cached /\ succeeded)

\* An export was refused on a client whose only pull failed after it had
\* appended records, and nothing was uploaded.
C24_RefusedAfterAFailedPull ==
    /\ last.op = "export"
    /\ last.error # "none"
    /\ IsNone(last.uploaded)
    /\ data_access_logs # <<>>
    /\ ~cache.cached

\* The time a normalized record carries: its timestamp, read back from the
\* ISO string.
TimeOf(record) == record.timestamp[2]

\* C25: every record a lookup by table returns for a requested interval has
\* its timestamp inside that interval, also when the lookup is answered from
\* a cached window wider than the request.
C25_ReturnedRecordsLieInTheInterval ==
    (last.op = "by_table_id" /\ last.error = "none")
        => \A i \in 1..Len(last.returned) :
              /\ TimeOf(last.returned[i]) >= Val(last.start)
              /\ TimeOf(last.returned[i]) <= Val(last.end)

\* C26: when get_all_data_access_logs raises, because of its arguments, of
\* the backend at the listing or of a failure while the entries are iterated
\* and normalized, data_access_logs and the cache are as they were before
\* the call.
C26_FailedPullChangesNothing ==
    (last.op = "get_all" /\ last.error # "none")
        => /\ data_access_logs = last.pre_logs
           /\ cache = last.pre_cache

----------------------------------------------------------------------------
(* The claims about the construction of CloudStorageClient and of nested   *)
(* singletons.                                                             *)

\* C27: in every state CloudStorageClient._instance is None or a client
\* whose initialisation has completed, also after an initialisation that
\* raised, and the object __new__ hands to a caller is initialised.
C27_SlotIsNoneOrInitialised ==
    /\ ~IsNone(c_instance) => c_objs[Val(c_instance)].initialized
    /\ \A t \in DOMAIN c_pc :
          c_pc[t] = "init" => c_objs[c_result[t]].initialized

\* C28: every interval returned by _calculate_interval, and every window a
\* successful pull stores in the cache, has its start no later than its
\* end, for every accepted combination of arguments, a day count of zero
\* or below zero included.
C28_StartNotAfterEnd ==
    (~IsNone(i_out) /\ Val(i_out).error = "none")
        => Val(i_out).start <= Val(i_out).end


\* C29: a constructor call of a subclass whose _initialize constructs a
\* different subclass that has no instance yet is not blocked by the lock
\* the subclasses share: no thread waits at line 28 for the lock while it
\* holds that lock itself (a wait that nothing can end, the lock being
\* released only by the thread that waits).
C29_NestedConstructionNotBlocked ==
    \A t \in DOMAIN p_stack : ~(AtLine(t, "acquire") /\ p_lock = t)

----------------------------------------------------------------------------
(* The claim about uniqueness checks listed more than once. *)

\* The checks of the run are two uniqueness checks, each naming columns of
\* the header, none of them twice, under a header without repeated names.
TwoUniquenessChecks ==
    /\ Len(data_checks) = 2
    /\ NoRepeatedName(header)
    /\ \A k \in 1..2 :
          /\ data_checks[k].name = "check_unique"
          /\ NoRepeatedName(ColumnsToTest(data_checks[k], header))
          /\ Range(ColumnsToTest(data_checks[k], header)) \subseteq Range(header)

\* The columns some check of the run names.
NamedColumns ==
    UNION {Range(ColumnsToTest(data_checks[k], header)) :
             k \in 1..Len(data_checks)}

\* No two of the rows read so far have the same value in a named column.
NoRepeatedValue ==
    \A c \in NamedColumns : \A r1, r2 \in 1..Len(rows) :
        ValueAt(r1, c) = ValueAt(r2, c) => r1 = r2

\* C30: listing the same uniqueness check twice, or two uniqueness checks
\* that cover the same column, does not change the verdict of
\* run_data_checks: while no value is repeated in a named column, no row
\* fails.
C30_ListedTwiceStillPasses ==
    (TwoUniquenessChecks /\ NoRepeatedValue)
        => /\ outcome \notin {"False", "raised"}
           /\ \A j \in 1..Len(invoked) : invoked[j].exc = "none"

====
